---------------------------- MODULE Spec2Model ----------------------------
(***************************************************************************)
(* Diamondz DEX: DiamondFactory (pair registry), DiamondPair (constant-    *)
(* product pool) and DiamondRouter (liquidity and multi-hop swaps).        *)
(*                                                                         *)
(* Every external call of a contract is one atomic step (an EVM            *)
(* transaction either commits or reverts as a whole).  The only call that  *)
(* is split over several steps is DiamondPair.swap with callback data:     *)
(* the callee runs between the optimistic transfer and the balance check,  *)
(* and the state before the call is kept so that a revert can restore it.  *)
(*                                                                         *)
(* TLC integers are 32 bit wide; uint256 values that exceed them (the      *)
(* K check's 1000^2 factor, the 1e18 price scale, type(uint112).max) are   *)
(* computed exactly on little-endian base-10000 digit sequences ("Big").   *)
(***************************************************************************)
EXTENDS Integers, Sequences, FiniteSets, TLC

----------------------------------------------------------------------------
(* uint256 arithmetic on digit sequences *)

Base == 10000

RECURSIVE BigOf(_)
BigOf(n) == IF n = 0 THEN <<>> ELSE <<n % Base>> \o BigOf(n \div Base)

RECURSIVE BigTrim(_)
BigTrim(a) ==
    IF a = <<>> THEN a
    ELSE IF a[Len(a)] = 0 THEN BigTrim(SubSeq(a, 1, Len(a) - 1)) ELSE a

BigDigit(a, i) == IF i <= Len(a) THEN a[i] ELSE 0

RECURSIVE BigAddC(_, _, _)
BigAddC(a, b, carry) ==
    IF a = <<>> /\ b = <<>>
    THEN (IF carry = 0 THEN <<>> ELSE <<carry>>)
    ELSE LET s == BigDigit(a, 1) + BigDigit(b, 1) + carry
             ta == IF a = <<>> THEN a ELSE Tail(a)
             tb == IF b = <<>> THEN b ELSE Tail(b)
         IN  <<s % Base>> \o BigAddC(ta, tb, s \div Base)

BigAdd(a, b) == BigAddC(a, b, 0)

RECURSIVE BigMulDigitC(_, _, _)
BigMulDigitC(a, d, carry) ==
    IF a = <<>> THEN BigOf(carry)
    ELSE LET s == a[1] * d + carry
         IN  <<s % Base>> \o BigMulDigitC(Tail(a), d, s \div Base)

\* a * d for one digit d < Base
BigMulDigit(a, d) == BigTrim(BigMulDigitC(a, d, 0))

RECURSIVE BigMul(_, _)
BigMul(a, b) ==
    IF b = <<>> \/ a = <<>> THEN <<>>
    ELSE LET rest == BigMul(a, Tail(b))
             shifted == IF rest = <<>> THEN rest ELSE <<0>> \o rest
         IN  BigAdd(BigMulDigit(a, b[1]), shifted)

RECURSIVE BigLeqFrom(_, _, _)
BigLeqFrom(a, b, i) ==
    IF i = 0 THEN TRUE
    ELSE IF a[i] # b[i] THEN a[i] < b[i]
    ELSE BigLeqFrom(a, b, i - 1)

\* a <= b
BigLeq(a, b) ==
    IF Len(a) # Len(b) THEN Len(a) < Len(b) ELSE BigLeqFrom(a, b, Len(a))

RECURSIVE BigSubC(_, _, _)
BigSubC(a, b, borrow) ==
    IF a = <<>> THEN <<>>
    ELSE LET d == a[1] - BigDigit(b, 1) - borrow
             tb == IF b = <<>> THEN b ELSE Tail(b)
         IN  <<(d + Base) % Base>> \o BigSubC(Tail(a), tb, IF d < 0 THEN 1 ELSE 0)

\* a - b for b <= a
BigSub(a, b) == BigTrim(BigSubC(a, b, 0))

\* the largest digit q in lo..hi with q * b <= a
RECURSIVE BigQuotDigit(_, _, _, _)
BigQuotDigit(a, b, lo, hi) ==
    IF lo = hi THEN lo
    ELSE LET mid == (lo + hi + 1) \div 2
         IN  IF BigLeq(BigMulDigit(b, mid), a)
             THEN BigQuotDigit(a, b, mid, hi)
             ELSE BigQuotDigit(a, b, lo, mid - 1)

\* long division, most significant digit first: <<quotient, remainder>>
RECURSIVE BigDivC(_, _, _)
BigDivC(a, b, i) ==
    IF i > Len(a) THEN <<(<<>>), (<<>>)>>
    ELSE LET hi == BigDivC(a, b, i + 1)
             cur == BigTrim(<<a[i]>> \o hi[2])
             q == BigQuotDigit(cur, b, 0, Base - 1)
         IN  <<(<<q>> \o hi[1]), BigSub(cur, BigMulDigit(b, q))>>

RECURSIVE BigToInt(_)
BigToInt(a) == IF a = <<>> THEN 0 ELSE a[1] + Base * BigToInt(Tail(a))

\* a is below 2^31, the range of the model checker's own integers
BigFits(a) == Len(a) <= 2 \/ (Len(a) = 3 /\ a[3] <= 20)

\* floor(a / b) for b # 0
BigDiv(a, b) ==
    IF BigFits(a) /\ BigFits(b) THEN BigOf(BigToInt(a) \div BigToInt(b))
    ELSE BigTrim(BigDivC(a, b, 1)[1])

----------------------------------------------------------------------------
(* Math library *)

min(x, y) == IF x < y THEN x ELSE y

RECURSIVE sqrtLoop(_, _, _)
sqrtLoop(y, z, x) ==
    IF x < z THEN sqrtLoop(y, x, (y \div x + x) \div 2) ELSE z

sqrt(y) ==
    IF y > 3 THEN sqrtLoop(y, y, y \div 2 + 1)
    ELSE IF y # 0 THEN 1 ELSE 0

----------------------------------------------------------------------------
(* Addresses *)

ZERO == 0                      \* address(0)
Tokens == {1, 2, 3, 4}         \* ERC20 tokens traded on the exchange
TokenArgs == Tokens \cup {ZERO}
Alice == 11                    \* an externally owned account
Borrower == 12                 \* a contract implementing IDiamondCallee
Collector == 13                \* the account the owner may set as feeTo
Router == 20                   \* the DiamondRouter contract
Factory == 21                  \* the DiamondFactory contract

\* create2 with salt keccak256(token0, token1): one address per sorted pair
PairAddress(token0, token1) == 100 + 10 * token0 + token1
\* the address of a DiamondPair that an account deploys itself
OwnPair == 30
PairAddrs == {PairAddress(a, b) : a \in Tokens, b \in Tokens} \cup {OwnPair}
Addr == {ZERO, Alice, Borrower, Collector, Router, Factory} \cup Tokens \cup PairAddrs

MINIMUM_LIQUIDITY == 1000
\* type(uint112).max = (2^28)^4 - 1
Uint112Max ==
    LET p28 == BigOf(268435456)
        p56 == BigMul(p28, p28)
    IN  BigSub(BigMul(p56, p56), <<1>>)
E18 == BigMul(BigOf(1000000000), BigOf(1000000000))

----------------------------------------------------------------------------
(* State *)

VARIABLES
    balances,                \* balances[t][a]: balance of account a in token t
    getPair,                 \* DiamondFactory.getPair, keyed by <<tokenA, tokenB>>
    allPairs,                \* DiamondFactory.allPairs
    feeTo,                   \* DiamondFactory.feeTo
    protocolFeeDenominator,  \* DiamondFactory.protocolFeeDenominator
    pairs,                   \* the storage of every DiamondPair, by address
    now,                     \* block.timestamp
    zeroMintOk,              \* whether the imported ERC20 base lets _mint credit address(0)
    frame,                   \* the swap that is waiting for its callback, if any
    lastCall                 \* the call that completed last, and its outcome

vars == <<balances, getPair, allPairs, feeTo, protocolFeeDenominator, pairs, now,
          zeroMintOk, frame, lastCall>>

\* The chain state a contract call reads and writes.
World == [balances |-> balances, getPair |-> getPair, allPairs |-> allPairs,
          feeTo |-> feeTo, protocolFeeDenominator |-> protocolFeeDenominator,
          pairs |-> pairs, now |-> now, zeroMintOk |-> zeroMintOk]

\* A call returns normally with the state it produced ...
Return(w, ret) == [ok |-> TRUE, err |-> "", w |-> w, ret |-> ret]
\* ... or reverts to the state `entry` it was entered in.
Revert(entry, err) == [ok |-> FALSE, err |-> err, w |-> entry, ret |-> <<>>]

----------------------------------------------------------------------------
(* ERC20 tokens: balances move only by transfer *)

transfer(w, token, from, to, value) ==
    IF w.balances[token][from] < value
    THEN Revert(w, "TRANSFER_FAILED")
    ELSE LET debited == [w.balances[token] EXCEPT ![from] = @ - value]
             credited == [debited EXCEPT ![to] = @ + value]
         IN  Return([w EXCEPT !.balances[token] = credited], <<>>)

(* Liquidity shares: DiamondPair is an ERC20 *)

UndeployedPair ==
    [deployed |-> FALSE, factory |-> ZERO, token0 |-> ZERO, token1 |-> ZERO,
     reserve0 |-> 0, reserve1 |-> 0, blockTimestampLast |-> 0,
     price0CumulativeLast |-> <<>>, price1CumulativeLast |-> <<>>, kLast |-> 0,
     totalSupply |-> 0, balanceOf |-> [a \in Addr |-> 0], status |-> "NOT_ENTERED"]

_mint(w, pair, account, amount) ==
    IF account = ZERO /\ ~w.zeroMintOk
    THEN Revert(w, "ERC20: mint to the zero address")
    ELSE Return([w EXCEPT !.pairs[pair].totalSupply = @ + amount,
                          !.pairs[pair].balanceOf[account] = @ + amount], <<>>)

_burn(w, pair, account, amount) ==
    IF w.pairs[pair].balanceOf[account] < amount
    THEN Revert(w, "ERC20: burn amount exceeds balance")
    ELSE Return([w EXCEPT !.pairs[pair].totalSupply = @ - amount,
                          !.pairs[pair].balanceOf[account] = @ - amount], <<>>)

transferShares(w, pair, from, to, value) ==
    IF ~w.pairs[pair].deployed \/ w.pairs[pair].balanceOf[from] < value \/ to = ZERO
    THEN Revert(w, "ERC20: transfer failed")
    ELSE LET debited == [w.pairs[pair].balanceOf EXCEPT ![from] = @ - value]
             credited == [debited EXCEPT ![to] = @ + value]
         IN  Return([w EXCEPT !.pairs[pair].balanceOf = credited], <<>>)

----------------------------------------------------------------------------
(* DiamondPair *)

\* a guard that never refuses
nonReentrant_Off(w, pair) == TRUE

\* modifier nonReentrant: a call is refused while another one is in progress
nonReentrant(w, pair) == w.pairs[pair].status # "ENTERED"
Enter(w, pair) == [w EXCEPT !.pairs[pair].status = "ENTERED"]
Exit(w, pair) == [w EXCEPT !.pairs[pair].status = "NOT_ENTERED"]

initialize(w, pair, sender, _token0, _token1) ==
    IF sender # w.pairs[pair].factory THEN Revert(w, "FORBIDDEN")
    ELSE Return([w EXCEPT !.pairs[pair].token0 = _token0,
                          !.pairs[pair].token1 = _token1], <<>>)

\* (uint(reserveX) * 1e18 / reserveY) * timeElapsed
PriceIncrement(reserveX, reserveY, timeElapsed) ==
    BigMul(BigDiv(BigMul(BigOf(reserveX), E18), BigOf(reserveY)), BigOf(timeElapsed))

\* _update that prices the elapsed time at the new balances
_update_NewReserves(w, pair, balance0, balance1, _reserve0, _reserve1) ==
    LET P == w.pairs[pair]
        blockTimestamp == w.now
        timeElapsed == blockTimestamp - P.blockTimestampLast
        accumulate == timeElapsed > 0 /\ _reserve0 # 0 /\ _reserve1 # 0
    IN  IF ~(BigLeq(BigOf(balance0), Uint112Max) /\ BigLeq(BigOf(balance1), Uint112Max))
        THEN Revert(w, "OVERFLOW")
        ELSE Return([w EXCEPT
               !.pairs[pair].price0CumulativeLast =
                   IF accumulate
                   THEN BigAdd(@, PriceIncrement(balance1, balance0, timeElapsed))
                   ELSE @,
               !.pairs[pair].price1CumulativeLast =
                   IF accumulate
                   THEN BigAdd(@, PriceIncrement(balance0, balance1, timeElapsed))
                   ELSE @,
               !.pairs[pair].reserve0 = balance0,
               !.pairs[pair].reserve1 = balance1,
               !.pairs[pair].blockTimestampLast = blockTimestamp], <<>>)

_update(w, pair, balance0, balance1, _reserve0, _reserve1) ==
    LET P == w.pairs[pair]
        blockTimestamp == w.now
        timeElapsed == blockTimestamp - P.blockTimestampLast
        accumulate == timeElapsed > 0 /\ _reserve0 # 0 /\ _reserve1 # 0
    IN  IF ~(BigLeq(BigOf(balance0), Uint112Max) /\ BigLeq(BigOf(balance1), Uint112Max))
        THEN Revert(w, "OVERFLOW")
        ELSE Return([w EXCEPT
               !.pairs[pair].price0CumulativeLast =
                   IF accumulate
                   THEN BigAdd(@, PriceIncrement(_reserve1, _reserve0, timeElapsed))
                   ELSE @,
               !.pairs[pair].price1CumulativeLast =
                   IF accumulate
                   THEN BigAdd(@, PriceIncrement(_reserve0, _reserve1, timeElapsed))
                   ELSE @,
               !.pairs[pair].reserve0 = balance0,
               !.pairs[pair].reserve1 = balance1,
               !.pairs[pair].blockTimestampLast = blockTimestamp], <<>>)

\* returns <<feeOn>>
\* _mintFee whose denominator leaves out rootKLast
_mintFee_NoRootKLast(w, pair, _reserve0, _reserve1) ==
    LET P == w.pairs[pair]
        feeOn == w.feeTo # ZERO
        _kLast == P.kLast
        rootK == sqrt(_reserve0 * _reserve1)
        rootKLast == sqrt(_kLast)
        numerator == P.totalSupply * (rootK - rootKLast)
        denominator == rootK * w.protocolFeeDenominator
        liquidity == numerator \div denominator
    IN  IF feeOn
        THEN IF _kLast # 0 /\ rootK > rootKLast /\ liquidity > 0
             THEN Return(_mint(w, pair, w.feeTo, liquidity).w, <<TRUE>>)
             ELSE Return(w, <<TRUE>>)
        ELSE IF _kLast # 0
             THEN Return([w EXCEPT !.pairs[pair].kLast = 0], <<FALSE>>)
             ELSE Return(w, <<FALSE>>)

\* kLast = reserve0 * reserve1 when the protocol fee is on
_mintFee(w, pair, _reserve0, _reserve1) ==
    LET P == w.pairs[pair]
        feeOn == w.feeTo # ZERO
        _kLast == P.kLast
        rootK == sqrt(_reserve0 * _reserve1)
        rootKLast == sqrt(_kLast)
        numerator == P.totalSupply * (rootK - rootKLast)
        denominator == rootK * w.protocolFeeDenominator + rootKLast
        liquidity == numerator \div denominator
    IN  IF feeOn
        THEN IF _kLast # 0 /\ rootK > rootKLast /\ liquidity > 0
             THEN Return(_mint(w, pair, w.feeTo, liquidity).w, <<TRUE>>)
             ELSE Return(w, <<TRUE>>)
        ELSE IF _kLast # 0
             THEN Return([w EXCEPT !.pairs[pair].kLast = 0], <<FALSE>>)
             ELSE Return(w, <<FALSE>>)

\* kLast = reserve0 * reserve1 when the protocol fee is on
\* records the product whether or not a fee collector is configured
SetKLast_Always(w, pair, feeOn) ==
    IF TRUE
    THEN [w EXCEPT !.pairs[pair].kLast = w.pairs[pair].reserve0 * w.pairs[pair].reserve1]
    ELSE w

SetKLast(w, pair, feeOn) ==
    IF feeOn
    THEN [w EXCEPT !.pairs[pair].kLast = w.pairs[pair].reserve0 * w.pairs[pair].reserve1]
    ELSE w

\* mint that takes the whole balances for the amounts paid in
mint_CountsReserves(w, pair, sender, to) ==
    LET P == w.pairs[pair]
        _reserve0 == P.reserve0
        _reserve1 == P.reserve1
        balance0 == w.balances[P.token0][pair]
        balance1 == w.balances[P.token1][pair]
        amount0 == balance0
        amount1 == balance1
        fee == _mintFee(w, pair, _reserve0, _reserve1)
        feeOn == fee.ret[1]
        _totalSupply == fee.w.pairs[pair].totalSupply
        root == sqrt(amount0 * amount1)
        liquidity ==
            IF _totalSupply = 0 THEN root - MINIMUM_LIQUIDITY
            ELSE min((amount0 * _totalSupply) \div _reserve0,
                     (amount1 * _totalSupply) \div _reserve1)
        locked == IF _totalSupply = 0
                  THEN _mint(fee.w, pair, ZERO, MINIMUM_LIQUIDITY)
                  ELSE Return(fee.w, <<>>)
        minted == _mint(locked.w, pair, to, liquidity)
        updated == _update(minted.w, pair, balance0, balance1, _reserve0, _reserve1)
    IN  IF ~P.deployed THEN Revert(w, "NO_CONTRACT")
        ELSE IF ~nonReentrant(w, pair) THEN Revert(w, "ReentrancyGuard: reentrant call")
        ELSE IF amount0 < 0 \/ amount1 < 0 THEN Revert(w, "SafeMath: subtraction overflow")
        ELSE IF _totalSupply = 0 /\ root < MINIMUM_LIQUIDITY
             THEN Revert(w, "SafeMath: subtraction overflow")
        ELSE IF _totalSupply # 0 /\ (_reserve0 = 0 \/ _reserve1 = 0)
             THEN Revert(w, "Panic: division by zero")
        ELSE IF ~locked.ok THEN Revert(w, locked.err)
        ELSE IF ~(liquidity > 0) THEN Revert(w, "INSUFFICIENT_LIQUIDITY_MINTED")
        ELSE IF ~minted.ok THEN Revert(w, minted.err)
        ELSE IF ~updated.ok THEN Revert(w, updated.err)
        ELSE Return(Exit(SetKLast(updated.w, pair, feeOn), pair), <<liquidity>>)

\* mint that locks no shares at address(0) on the first deposit
mint_NoLock(w, pair, sender, to) ==
    LET P == w.pairs[pair]
        _reserve0 == P.reserve0
        _reserve1 == P.reserve1
        balance0 == w.balances[P.token0][pair]
        balance1 == w.balances[P.token1][pair]
        amount0 == balance0 - _reserve0
        amount1 == balance1 - _reserve1
        fee == _mintFee(w, pair, _reserve0, _reserve1)
        feeOn == fee.ret[1]
        _totalSupply == fee.w.pairs[pair].totalSupply
        root == sqrt(amount0 * amount1)
        liquidity ==
            IF _totalSupply = 0 THEN root - MINIMUM_LIQUIDITY
            ELSE min((amount0 * _totalSupply) \div _reserve0,
                     (amount1 * _totalSupply) \div _reserve1)
        locked == Return(fee.w, <<>>)
        minted == _mint(locked.w, pair, to, liquidity)
        updated == _update(minted.w, pair, balance0, balance1, _reserve0, _reserve1)
    IN  IF ~P.deployed THEN Revert(w, "NO_CONTRACT")
        ELSE IF ~nonReentrant(w, pair) THEN Revert(w, "ReentrancyGuard: reentrant call")
        ELSE IF amount0 < 0 \/ amount1 < 0 THEN Revert(w, "SafeMath: subtraction overflow")
        ELSE IF _totalSupply = 0 /\ root < MINIMUM_LIQUIDITY
             THEN Revert(w, "SafeMath: subtraction overflow")
        ELSE IF _totalSupply # 0 /\ (_reserve0 = 0 \/ _reserve1 = 0)
             THEN Revert(w, "Panic: division by zero")
        ELSE IF ~locked.ok THEN Revert(w, locked.err)
        ELSE IF ~(liquidity > 0) THEN Revert(w, "INSUFFICIENT_LIQUIDITY_MINTED")
        ELSE IF ~minted.ok THEN Revert(w, minted.err)
        ELSE IF ~updated.ok THEN Revert(w, updated.err)
        ELSE Return(Exit(SetKLast(updated.w, pair, feeOn), pair), <<liquidity>>)

\* mint that credits the larger of the two proportional amounts
mint_LargerShare(w, pair, sender, to) ==
    LET P == w.pairs[pair]
        _reserve0 == P.reserve0
        _reserve1 == P.reserve1
        balance0 == w.balances[P.token0][pair]
        balance1 == w.balances[P.token1][pair]
        amount0 == balance0 - _reserve0
        amount1 == balance1 - _reserve1
        fee == _mintFee(w, pair, _reserve0, _reserve1)
        feeOn == fee.ret[1]
        _totalSupply == fee.w.pairs[pair].totalSupply
        root == sqrt(amount0 * amount1)
        liquidity ==
            IF _totalSupply = 0 THEN root - MINIMUM_LIQUIDITY
            ELSE IF (amount0 * _totalSupply) \div _reserve0 >
                    (amount1 * _totalSupply) \div _reserve1
                 THEN (amount0 * _totalSupply) \div _reserve0
                 ELSE (amount1 * _totalSupply) \div _reserve1
        locked == IF _totalSupply = 0
                  THEN _mint(fee.w, pair, ZERO, MINIMUM_LIQUIDITY)
                  ELSE Return(fee.w, <<>>)
        minted == _mint(locked.w, pair, to, liquidity)
        updated == _update(minted.w, pair, balance0, balance1, _reserve0, _reserve1)
    IN  IF ~P.deployed THEN Revert(w, "NO_CONTRACT")
        ELSE IF ~nonReentrant(w, pair) THEN Revert(w, "ReentrancyGuard: reentrant call")
        ELSE IF amount0 < 0 \/ amount1 < 0 THEN Revert(w, "SafeMath: subtraction overflow")
        ELSE IF _totalSupply = 0 /\ root < MINIMUM_LIQUIDITY
             THEN Revert(w, "SafeMath: subtraction overflow")
        ELSE IF _totalSupply # 0 /\ (_reserve0 = 0 \/ _reserve1 = 0)
             THEN Revert(w, "Panic: division by zero")
        ELSE IF ~locked.ok THEN Revert(w, locked.err)
        ELSE IF ~(liquidity > 0) THEN Revert(w, "INSUFFICIENT_LIQUIDITY_MINTED")
        ELSE IF ~minted.ok THEN Revert(w, minted.err)
        ELSE IF ~updated.ok THEN Revert(w, updated.err)
        ELSE Return(Exit(SetKLast(updated.w, pair, feeOn), pair), <<liquidity>>)

mint(w, pair, sender, to) ==
    LET P == w.pairs[pair]
        _reserve0 == P.reserve0
        _reserve1 == P.reserve1
        balance0 == w.balances[P.token0][pair]
        balance1 == w.balances[P.token1][pair]
        amount0 == balance0 - _reserve0
        amount1 == balance1 - _reserve1
        fee == _mintFee(w, pair, _reserve0, _reserve1)
        feeOn == fee.ret[1]
        _totalSupply == fee.w.pairs[pair].totalSupply
        root == sqrt(amount0 * amount1)
        liquidity ==
            IF _totalSupply = 0 THEN root - MINIMUM_LIQUIDITY
            ELSE min((amount0 * _totalSupply) \div _reserve0,
                     (amount1 * _totalSupply) \div _reserve1)
        locked == IF _totalSupply = 0
                  THEN _mint(fee.w, pair, ZERO, MINIMUM_LIQUIDITY)
                  ELSE Return(fee.w, <<>>)
        minted == _mint(locked.w, pair, to, liquidity)
        updated == _update(minted.w, pair, balance0, balance1, _reserve0, _reserve1)
    IN  IF ~P.deployed THEN Revert(w, "NO_CONTRACT")
        ELSE IF ~nonReentrant(w, pair) THEN Revert(w, "ReentrancyGuard: reentrant call")
        ELSE IF amount0 < 0 \/ amount1 < 0 THEN Revert(w, "SafeMath: subtraction overflow")
        ELSE IF _totalSupply = 0 /\ root < MINIMUM_LIQUIDITY
             THEN Revert(w, "SafeMath: subtraction overflow")
        ELSE IF _totalSupply # 0 /\ (_reserve0 = 0 \/ _reserve1 = 0)
             THEN Revert(w, "Panic: division by zero")
        ELSE IF ~locked.ok THEN Revert(w, locked.err)
        ELSE IF ~(liquidity > 0) THEN Revert(w, "INSUFFICIENT_LIQUIDITY_MINTED")
        ELSE IF ~minted.ok THEN Revert(w, minted.err)
        ELSE IF ~updated.ok THEN Revert(w, updated.err)
        ELSE Return(Exit(SetKLast(updated.w, pair, feeOn), pair), <<liquidity>>)

\* burn that pays out of the stored reserves instead of the current balances
burn_FromReserves(w, pair, sender, to) ==
    LET P == w.pairs[pair]
        _reserve0 == P.reserve0
        _reserve1 == P.reserve1
        _token0 == P.token0
        _token1 == P.token1
        balance0 == w.balances[_token0][pair]
        balance1 == w.balances[_token1][pair]
        liquidity == P.balanceOf[pair]
        fee == _mintFee(w, pair, _reserve0, _reserve1)
        feeOn == fee.ret[1]
        _totalSupply == fee.w.pairs[pair].totalSupply
        amount0 == (liquidity * _reserve0) \div _totalSupply
        amount1 == (liquidity * _reserve1) \div _totalSupply
        burned == _burn(fee.w, pair, pair, liquidity)
        sent0 == transfer(burned.w, _token0, pair, to, amount0)
        sent1 == transfer(sent0.w, _token1, pair, to, amount1)
        updated == _update(sent1.w, pair, sent1.w.balances[_token0][pair],
                           sent1.w.balances[_token1][pair], _reserve0, _reserve1)
    IN  IF ~P.deployed THEN Revert(w, "NO_CONTRACT")
        ELSE IF ~nonReentrant(w, pair) THEN Revert(w, "ReentrancyGuard: reentrant call")
        ELSE IF _totalSupply = 0 THEN Revert(w, "Panic: division by zero")
        ELSE IF ~(amount0 > 0 /\ amount1 > 0)
             THEN Revert(w, "INSUFFICIENT_LIQUIDITY_BURNED")
        ELSE IF ~burned.ok THEN Revert(w, burned.err)
        ELSE IF ~sent0.ok \/ ~sent1.ok THEN Revert(w, "TRANSFER_FAILED")
        ELSE IF ~updated.ok THEN Revert(w, updated.err)
        ELSE Return(Exit(SetKLast(updated.w, pair, feeOn), pair), <<amount0, amount1>>)

\* burn that stores the balances it read before paying out
burn_StaleBalances(w, pair, sender, to) ==
    LET P == w.pairs[pair]
        _reserve0 == P.reserve0
        _reserve1 == P.reserve1
        _token0 == P.token0
        _token1 == P.token1
        balance0 == w.balances[_token0][pair]
        balance1 == w.balances[_token1][pair]
        liquidity == P.balanceOf[pair]
        fee == _mintFee(w, pair, _reserve0, _reserve1)
        feeOn == fee.ret[1]
        _totalSupply == fee.w.pairs[pair].totalSupply
        amount0 == (liquidity * balance0) \div _totalSupply
        amount1 == (liquidity * balance1) \div _totalSupply
        burned == _burn(fee.w, pair, pair, liquidity)
        sent0 == transfer(burned.w, _token0, pair, to, amount0)
        sent1 == transfer(sent0.w, _token1, pair, to, amount1)
        updated == _update(sent1.w, pair, balance0, balance1, _reserve0, _reserve1)
    IN  IF ~P.deployed THEN Revert(w, "NO_CONTRACT")
        ELSE IF ~nonReentrant(w, pair) THEN Revert(w, "ReentrancyGuard: reentrant call")
        ELSE IF _totalSupply = 0 THEN Revert(w, "Panic: division by zero")
        ELSE IF ~(amount0 > 0 /\ amount1 > 0)
             THEN Revert(w, "INSUFFICIENT_LIQUIDITY_BURNED")
        ELSE IF ~burned.ok THEN Revert(w, burned.err)
        ELSE IF ~sent0.ok \/ ~sent1.ok THEN Revert(w, "TRANSFER_FAILED")
        ELSE IF ~updated.ok THEN Revert(w, updated.err)
        ELSE Return(Exit(SetKLast(updated.w, pair, feeOn), pair), <<amount0, amount1>>)

\* burn that rounds the amounts paid out up
burn_RoundsUp(w, pair, sender, to) ==
    LET P == w.pairs[pair]
        _reserve0 == P.reserve0
        _reserve1 == P.reserve1
        _token0 == P.token0
        _token1 == P.token1
        balance0 == w.balances[_token0][pair]
        balance1 == w.balances[_token1][pair]
        liquidity == P.balanceOf[pair]
        fee == _mintFee(w, pair, _reserve0, _reserve1)
        feeOn == fee.ret[1]
        _totalSupply == fee.w.pairs[pair].totalSupply
        amount0 == (liquidity * balance0 + _totalSupply - 1) \div _totalSupply
        amount1 == (liquidity * balance1 + _totalSupply - 1) \div _totalSupply
        burned == _burn(fee.w, pair, pair, liquidity)
        sent0 == transfer(burned.w, _token0, pair, to, amount0)
        sent1 == transfer(sent0.w, _token1, pair, to, amount1)
        updated == _update(sent1.w, pair, sent1.w.balances[_token0][pair],
                           sent1.w.balances[_token1][pair], _reserve0, _reserve1)
    IN  IF ~P.deployed THEN Revert(w, "NO_CONTRACT")
        ELSE IF ~nonReentrant(w, pair) THEN Revert(w, "ReentrancyGuard: reentrant call")
        ELSE IF _totalSupply = 0 THEN Revert(w, "Panic: division by zero")
        ELSE IF ~(amount0 > 0 /\ amount1 > 0)
             THEN Revert(w, "INSUFFICIENT_LIQUIDITY_BURNED")
        ELSE IF ~burned.ok THEN Revert(w, burned.err)
        ELSE IF ~sent0.ok \/ ~sent1.ok THEN Revert(w, "TRANSFER_FAILED")
        ELSE IF ~updated.ok THEN Revert(w, updated.err)
        ELSE Return(Exit(SetKLast(updated.w, pair, feeOn), pair), <<amount0, amount1>>)

burn(w, pair, sender, to) ==
    LET P == w.pairs[pair]
        _reserve0 == P.reserve0
        _reserve1 == P.reserve1
        _token0 == P.token0
        _token1 == P.token1
        balance0 == w.balances[_token0][pair]
        balance1 == w.balances[_token1][pair]
        liquidity == P.balanceOf[pair]
        fee == _mintFee(w, pair, _reserve0, _reserve1)
        feeOn == fee.ret[1]
        _totalSupply == fee.w.pairs[pair].totalSupply
        amount0 == (liquidity * balance0) \div _totalSupply
        amount1 == (liquidity * balance1) \div _totalSupply
        burned == _burn(fee.w, pair, pair, liquidity)
        sent0 == transfer(burned.w, _token0, pair, to, amount0)
        sent1 == transfer(sent0.w, _token1, pair, to, amount1)
        updated == _update(sent1.w, pair, sent1.w.balances[_token0][pair],
                           sent1.w.balances[_token1][pair], _reserve0, _reserve1)
    IN  IF ~P.deployed THEN Revert(w, "NO_CONTRACT")
        ELSE IF ~nonReentrant(w, pair) THEN Revert(w, "ReentrancyGuard: reentrant call")
        ELSE IF _totalSupply = 0 THEN Revert(w, "Panic: division by zero")
        ELSE IF ~(amount0 > 0 /\ amount1 > 0)
             THEN Revert(w, "INSUFFICIENT_LIQUIDITY_BURNED")
        ELSE IF ~burned.ok THEN Revert(w, burned.err)
        ELSE IF ~sent0.ok \/ ~sent1.ok THEN Revert(w, "TRANSFER_FAILED")
        ELSE IF ~updated.ok THEN Revert(w, updated.err)
        ELSE Return(Exit(SetKLast(updated.w, pair, feeOn), pair), <<amount0, amount1>>)

\* swapBegin without the check that an output is requested
swapBegin_NoOutputCheck(w, pair, sender, amount0Out, amount1Out, to) ==
    LET P == w.pairs[pair]
        _reserve0 == P.reserve0
        _reserve1 == P.reserve1
        sent0 == IF amount0Out > 0 THEN transfer(w, P.token0, pair, to, amount0Out)
                 ELSE Return(w, <<>>)
        sent1 == IF amount1Out > 0 THEN transfer(sent0.w, P.token1, pair, to, amount1Out)
                 ELSE Return(sent0.w, <<>>)
    IN  IF ~P.deployed THEN Revert(w, "NO_CONTRACT")
        ELSE IF ~nonReentrant(w, pair) THEN Revert(w, "ReentrancyGuard: reentrant call")
        ELSE IF ~(amount0Out < _reserve0 /\ amount1Out < _reserve1)
             THEN Revert(w, "INSUFFICIENT_LIQUIDITY")
        ELSE IF ~(to # P.token0 /\ to # P.token1) THEN Revert(w, "INVALID_TO")
        ELSE IF ~sent0.ok \/ ~sent1.ok THEN Revert(w, "TRANSFER_FAILED")
        ELSE Return(Enter(sent1.w, pair), <<_reserve0, _reserve1>>)

\* swapBegin that lets an output equal to the whole reserve through
swapBegin_FullReserve(w, pair, sender, amount0Out, amount1Out, to) ==
    LET P == w.pairs[pair]
        _reserve0 == P.reserve0
        _reserve1 == P.reserve1
        sent0 == IF amount0Out > 0 THEN transfer(w, P.token0, pair, to, amount0Out)
                 ELSE Return(w, <<>>)
        sent1 == IF amount1Out > 0 THEN transfer(sent0.w, P.token1, pair, to, amount1Out)
                 ELSE Return(sent0.w, <<>>)
    IN  IF ~P.deployed THEN Revert(w, "NO_CONTRACT")
        ELSE IF ~nonReentrant(w, pair) THEN Revert(w, "ReentrancyGuard: reentrant call")
        ELSE IF ~(amount0Out > 0 \/ amount1Out > 0)
             THEN Revert(w, "INSUFFICIENT_OUTPUT_AMOUNT")
        ELSE IF ~(amount0Out <= _reserve0 /\ amount1Out <= _reserve1)
             THEN Revert(w, "INSUFFICIENT_LIQUIDITY")
        ELSE IF ~(to # P.token0 /\ to # P.token1) THEN Revert(w, "INVALID_TO")
        ELSE IF ~sent0.ok \/ ~sent1.ok THEN Revert(w, "TRANSFER_FAILED")
        ELSE Return(Enter(sent1.w, pair), <<_reserve0, _reserve1>>)

\* swap up to the callback: the checks on the requested outputs and the
\* optimistic transfers; the guard stays entered
\* swapBegin that stores the balances as reserves before the callback
swapBegin_UpdatesFirst(w, pair, sender, amount0Out, amount1Out, to) ==
    LET P == w.pairs[pair]
        _reserve0 == P.reserve0
        _reserve1 == P.reserve1
        sent0 == IF amount0Out > 0 THEN transfer(w, P.token0, pair, to, amount0Out)
                 ELSE Return(w, <<>>)
        sent1 == IF amount1Out > 0 THEN transfer(sent0.w, P.token1, pair, to, amount1Out)
                 ELSE Return(sent0.w, <<>>)
    IN  IF ~P.deployed THEN Revert(w, "NO_CONTRACT")
        ELSE IF ~nonReentrant(w, pair) THEN Revert(w, "ReentrancyGuard: reentrant call")
        ELSE IF ~(amount0Out > 0 \/ amount1Out > 0)
             THEN Revert(w, "INSUFFICIENT_OUTPUT_AMOUNT")
        ELSE IF ~(amount0Out < _reserve0 /\ amount1Out < _reserve1)
             THEN Revert(w, "INSUFFICIENT_LIQUIDITY")
        ELSE IF ~(to # P.token0 /\ to # P.token1) THEN Revert(w, "INVALID_TO")
        ELSE IF ~sent0.ok \/ ~sent1.ok THEN Revert(w, "TRANSFER_FAILED")
        ELSE Return(Enter([sent1.w EXCEPT
                              !.pairs[pair].reserve0 = sent1.w.balances[P.token0][pair],
                              !.pairs[pair].reserve1 = sent1.w.balances[P.token1][pair]],
                          pair),
                    <<_reserve0, _reserve1>>)

swapBegin(w, pair, sender, amount0Out, amount1Out, to) ==
    LET P == w.pairs[pair]
        _reserve0 == P.reserve0
        _reserve1 == P.reserve1
        sent0 == IF amount0Out > 0 THEN transfer(w, P.token0, pair, to, amount0Out)
                 ELSE Return(w, <<>>)
        sent1 == IF amount1Out > 0 THEN transfer(sent0.w, P.token1, pair, to, amount1Out)
                 ELSE Return(sent0.w, <<>>)
    IN  IF ~P.deployed THEN Revert(w, "NO_CONTRACT")
        ELSE IF ~nonReentrant(w, pair) THEN Revert(w, "ReentrancyGuard: reentrant call")
        ELSE IF ~(amount0Out > 0 \/ amount1Out > 0)
             THEN Revert(w, "INSUFFICIENT_OUTPUT_AMOUNT")
        ELSE IF ~(amount0Out < _reserve0 /\ amount1Out < _reserve1)
             THEN Revert(w, "INSUFFICIENT_LIQUIDITY")
        ELSE IF ~(to # P.token0 /\ to # P.token1) THEN Revert(w, "INVALID_TO")
        ELSE IF ~sent0.ok \/ ~sent1.ok THEN Revert(w, "TRANSFER_FAILED")
        ELSE Return(Enter(sent1.w, pair), <<_reserve0, _reserve1>>)

\* a K check that accepts every pair of balances
KHolds_Off(balance0Adjusted, balance1Adjusted, _reserve0, _reserve1) == TRUE

\* balance0Adjusted * balance1Adjusted >= _reserve0 * _reserve1 * 1000**2
KHolds(balance0Adjusted, balance1Adjusted, _reserve0, _reserve1) ==
    BigLeq(BigMul(BigMul(BigOf(_reserve0), BigOf(_reserve1)), BigOf(1000000)),
           BigMul(BigOf(balance0Adjusted), BigOf(balance1Adjusted)))

\* swapFinish whose failed checks keep the state reached so far
swapFinish_NoRollback(w, entry, pair, amount0Out, amount1Out, _reserve0, _reserve1) ==
    LET P == w.pairs[pair]
        balance0 == w.balances[P.token0][pair]
        balance1 == w.balances[P.token1][pair]
        amount0In == IF balance0 > _reserve0 - amount0Out
                     THEN balance0 - (_reserve0 - amount0Out) ELSE 0
        amount1In == IF balance1 > _reserve1 - amount1Out
                     THEN balance1 - (_reserve1 - amount1Out) ELSE 0
        balance0Adjusted == balance0 * 1000 - amount0In * 3
        balance1Adjusted == balance1 * 1000 - amount1In * 3
        updated == _update(w, pair, balance0, balance1, _reserve0, _reserve1)
    IN  IF ~(amount0In > 0 \/ amount1In > 0)
        THEN Revert(w, "INSUFFICIENT_INPUT_AMOUNT")
        ELSE IF ~KHolds(balance0Adjusted, balance1Adjusted, _reserve0, _reserve1)
             THEN Revert(w, "K")
        ELSE IF ~updated.ok THEN Revert(w, updated.err)
        ELSE Return(Exit(updated.w, pair), <<amount0In, amount1In>>)

\* swap after the callback: the balance reads, the input amounts, the K check
\* and the reserve update.  `entry` is the state swap was called in.
swapFinish(w, entry, pair, amount0Out, amount1Out, _reserve0, _reserve1) ==
    LET P == w.pairs[pair]
        balance0 == w.balances[P.token0][pair]
        balance1 == w.balances[P.token1][pair]
        amount0In == IF balance0 > _reserve0 - amount0Out
                     THEN balance0 - (_reserve0 - amount0Out) ELSE 0
        amount1In == IF balance1 > _reserve1 - amount1Out
                     THEN balance1 - (_reserve1 - amount1Out) ELSE 0
        balance0Adjusted == balance0 * 1000 - amount0In * 3
        balance1Adjusted == balance1 * 1000 - amount1In * 3
        updated == _update(w, pair, balance0, balance1, _reserve0, _reserve1)
    IN  IF ~(amount0In > 0 \/ amount1In > 0)
        THEN Revert(entry, "INSUFFICIENT_INPUT_AMOUNT")
        ELSE IF ~KHolds(balance0Adjusted, balance1Adjusted, _reserve0, _reserve1)
             THEN Revert(entry, "K")
        ELSE IF ~updated.ok THEN Revert(entry, updated.err)
        ELSE Return(Exit(updated.w, pair), <<amount0In, amount1In>>)

\* swap with empty data: no callback
swap(w, pair, sender, amount0Out, amount1Out, to) ==
    LET begun == swapBegin(w, pair, sender, amount0Out, amount1Out, to)
    IN  IF ~begun.ok THEN begun
        ELSE swapFinish(begun.w, w, pair, amount0Out, amount1Out,
                        begun.ret[1], begun.ret[2])

\* skim that sends the whole balances instead of the excess over the reserves
skim_WholeBalance(w, pair, sender, to) ==
    LET P == w.pairs[pair]
        _token0 == P.token0
        _token1 == P.token1
        excess0 == w.balances[_token0][pair]
        sent0 == transfer(w, _token0, pair, to, excess0)
        excess1 == sent0.w.balances[_token1][pair]
        sent1 == transfer(sent0.w, _token1, pair, to, excess1)
    IN  IF ~P.deployed THEN Revert(w, "NO_CONTRACT")
        ELSE IF ~nonReentrant(w, pair) THEN Revert(w, "ReentrancyGuard: reentrant call")
        ELSE IF excess0 < 0 THEN Revert(w, "SafeMath: subtraction overflow")
        ELSE IF ~sent0.ok THEN Revert(w, "TRANSFER_FAILED")
        ELSE IF excess1 < 0 THEN Revert(w, "SafeMath: subtraction overflow")
        ELSE IF ~sent1.ok THEN Revert(w, "TRANSFER_FAILED")
        ELSE Return(Exit(sent1.w, pair), <<excess0, excess1>>)

skim(w, pair, sender, to) ==
    LET P == w.pairs[pair]
        _token0 == P.token0
        _token1 == P.token1
        excess0 == w.balances[_token0][pair] - P.reserve0
        sent0 == transfer(w, _token0, pair, to, excess0)
        excess1 == sent0.w.balances[_token1][pair] - P.reserve1
        sent1 == transfer(sent0.w, _token1, pair, to, excess1)
    IN  IF ~P.deployed THEN Revert(w, "NO_CONTRACT")
        ELSE IF ~nonReentrant(w, pair) THEN Revert(w, "ReentrancyGuard: reentrant call")
        ELSE IF excess0 < 0 THEN Revert(w, "SafeMath: subtraction overflow")
        ELSE IF ~sent0.ok THEN Revert(w, "TRANSFER_FAILED")
        ELSE IF excess1 < 0 THEN Revert(w, "SafeMath: subtraction overflow")
        ELSE IF ~sent1.ok THEN Revert(w, "TRANSFER_FAILED")
        ELSE Return(Exit(sent1.w, pair), <<excess0, excess1>>)

\* sync that mints the protocol fee shares before it updates the reserves
sync_ChargesFee(w, pair, sender) ==
    LET P == w.pairs[pair]
        fee == _mintFee(w, pair, P.reserve0, P.reserve1)
        updated == _update(fee.w, pair, w.balances[P.token0][pair],
                           w.balances[P.token1][pair], P.reserve0, P.reserve1)
    IN  IF ~P.deployed THEN Revert(w, "NO_CONTRACT")
        ELSE IF ~nonReentrant(w, pair) THEN Revert(w, "ReentrancyGuard: reentrant call")
        ELSE IF ~updated.ok THEN Revert(w, updated.err)
        ELSE Return(Exit(updated.w, pair), <<>>)

sync(w, pair, sender) ==
    LET P == w.pairs[pair]
        updated == _update(w, pair, w.balances[P.token0][pair],
                           w.balances[P.token1][pair], P.reserve0, P.reserve1)
    IN  IF ~P.deployed THEN Revert(w, "NO_CONTRACT")
        ELSE IF ~nonReentrant(w, pair) THEN Revert(w, "ReentrancyGuard: reentrant call")
        ELSE IF ~updated.ok THEN Revert(w, updated.err)
        ELSE Return(Exit(updated.w, pair), <<>>)

----------------------------------------------------------------------------
(* DiamondFactory *)

\* createPair without the PAIR_EXISTS check
createPair_NoExistsCheck(w, tokenA, tokenB) ==
    LET token0 == IF tokenA < tokenB THEN tokenA ELSE tokenB
        token1 == IF tokenA < tokenB THEN tokenB ELSE tokenA
        pair == PairAddress(token0, token1)
        \* create2: the constructor sets factory = msg.sender
        created == [w EXCEPT !.pairs[pair] =
                       [UndeployedPair EXCEPT !.deployed = TRUE, !.factory = Factory]]
        initialized == initialize(created, pair, Factory, token0, token1)
    IN  IF tokenA = tokenB THEN Revert(w, "IDENTICAL_ADDRESSES")
        ELSE IF token0 = ZERO THEN Revert(w, "ZERO_ADDRESS")
        ELSE IF ~initialized.ok THEN Revert(w, initialized.err)
        ELSE Return([initialized.w EXCEPT !.getPair[<<token0, token1>>] = pair,
                                          !.getPair[<<token1, token0>>] = pair,
                                          !.allPairs = Append(@, pair)], <<pair>>)

\* createPair that fills the mapping for the sorted order only
createPair_OneDirection(w, tokenA, tokenB) ==
    LET token0 == IF tokenA < tokenB THEN tokenA ELSE tokenB
        token1 == IF tokenA < tokenB THEN tokenB ELSE tokenA
        pair == PairAddress(token0, token1)
        \* create2: the constructor sets factory = msg.sender
        created == [w EXCEPT !.pairs[pair] =
                       [UndeployedPair EXCEPT !.deployed = TRUE, !.factory = Factory]]
        initialized == initialize(created, pair, Factory, token0, token1)
    IN  IF tokenA = tokenB THEN Revert(w, "IDENTICAL_ADDRESSES")
        ELSE IF token0 = ZERO THEN Revert(w, "ZERO_ADDRESS")
        ELSE IF w.getPair[<<token0, token1>>] # ZERO THEN Revert(w, "PAIR_EXISTS")
        ELSE IF ~initialized.ok THEN Revert(w, initialized.err)
        ELSE Return([initialized.w EXCEPT !.getPair[<<token0, token1>>] = pair,
                                          !.allPairs = Append(@, pair)], <<pair>>)

createPair(w, tokenA, tokenB) ==
    LET token0 == IF tokenA < tokenB THEN tokenA ELSE tokenB
        token1 == IF tokenA < tokenB THEN tokenB ELSE tokenA
        pair == PairAddress(token0, token1)
        \* create2: the constructor sets factory = msg.sender
        created == [w EXCEPT !.pairs[pair] =
                       [UndeployedPair EXCEPT !.deployed = TRUE, !.factory = Factory]]
        initialized == initialize(created, pair, Factory, token0, token1)
    IN  IF tokenA = tokenB THEN Revert(w, "IDENTICAL_ADDRESSES")
        ELSE IF token0 = ZERO THEN Revert(w, "ZERO_ADDRESS")
        ELSE IF w.getPair[<<token0, token1>>] # ZERO THEN Revert(w, "PAIR_EXISTS")
        ELSE IF ~initialized.ok THEN Revert(w, initialized.err)
        ELSE Return([initialized.w EXCEPT !.getPair[<<token0, token1>>] = pair,
                                          !.getPair[<<token1, token0>>] = pair,
                                          !.allPairs = Append(@, pair)], <<pair>>)

\* new DiamondPair() sent by an account: the constructor sets factory = msg.sender
deployPair(w, sender) ==
    IF w.pairs[OwnPair].deployed THEN Revert(w, "ADDRESS_TAKEN")
    ELSE Return([w EXCEPT !.pairs[OwnPair] =
                    [UndeployedPair EXCEPT !.deployed = TRUE, !.factory = sender]],
                <<OwnPair>>)

setFeeTo(w, _feeTo) == Return([w EXCEPT !.feeTo = _feeTo], <<>>)

allPairsLength(w) == Len(w.allPairs)

----------------------------------------------------------------------------
(* DiamondRouter: view and pure functions *)

\* the result of a function that changes no state
Val(v) == [ok |-> TRUE, err |-> "", val |-> v]
Err(e) == [ok |-> FALSE, err |-> e, val |-> <<>>]

sortTokens(tokenA, tokenB) ==
    LET token0 == IF tokenA < tokenB THEN tokenA ELSE tokenB
        token1 == IF tokenA < tokenB THEN tokenB ELSE tokenA
    IN  IF tokenA = tokenB THEN Err("IDENTICAL_ADDRESSES")
        ELSE IF token0 = ZERO THEN Err("ZERO_ADDRESS")
        ELSE Val(<<token0, token1>>)

pairFor(w, tokenA, tokenB) == w.getPair[<<tokenA, tokenB>>]

\* getReserves that returns the reserves in the pair's own order
getReserves_Unoriented(w, tokenA, tokenB) ==
    LET sorted == sortTokens(tokenA, tokenB)
        pair == pairFor(w, tokenA, tokenB)
        reserve0 == w.pairs[pair].reserve0
        reserve1 == w.pairs[pair].reserve1
    IN  IF ~sorted.ok THEN sorted
        ELSE IF pair = ZERO THEN Val(<<0, 0>>)
        ELSE IF tokenA = sorted.val[1] THEN Val(<<reserve0, reserve1>>)
        ELSE Val(<<reserve0, reserve1>>)

getReserves(w, tokenA, tokenB) ==
    LET sorted == sortTokens(tokenA, tokenB)
        pair == pairFor(w, tokenA, tokenB)
        reserve0 == w.pairs[pair].reserve0
        reserve1 == w.pairs[pair].reserve1
    IN  IF ~sorted.ok THEN sorted
        ELSE IF pair = ZERO THEN Val(<<0, 0>>)
        ELSE IF tokenA = sorted.val[1] THEN Val(<<reserve0, reserve1>>)
        ELSE Val(<<reserve1, reserve0>>)

quote(amountA, reserveA, reserveB) ==
    IF ~(amountA > 0) THEN Err("INSUFFICIENT_AMOUNT")
    ELSE IF ~(reserveA > 0 /\ reserveB > 0) THEN Err("INSUFFICIENT_LIQUIDITY")
    ELSE Val((amountA * reserveB) \div reserveA)

\* getAmountOut that takes no fee off the input
getAmountOut_NoFee(amountIn, reserveIn, reserveOut) ==
    LET amountInWithFee == BigMulDigit(BigOf(amountIn), 1000)
        numerator == BigMul(amountInWithFee, BigOf(reserveOut))
        denominator == BigAdd(BigMulDigit(BigOf(reserveIn), 1000), amountInWithFee)
    IN  IF ~(amountIn > 0) THEN Err("INSUFFICIENT_INPUT_AMOUNT")
        ELSE IF ~(reserveIn > 0 /\ reserveOut > 0) THEN Err("INSUFFICIENT_LIQUIDITY")
        ELSE Val(BigToInt(BigDiv(numerator, denominator)))

\* getAmountOut that rounds the quotient up
getAmountOut_RoundsUp(amountIn, reserveIn, reserveOut) ==
    LET amountInWithFee == BigMulDigit(BigOf(amountIn), 997)
        numerator == BigMul(amountInWithFee, BigOf(reserveOut))
        denominator == BigAdd(BigMulDigit(BigOf(reserveIn), 1000), amountInWithFee)
    IN  IF ~(amountIn > 0) THEN Err("INSUFFICIENT_INPUT_AMOUNT")
        ELSE IF ~(reserveIn > 0 /\ reserveOut > 0) THEN Err("INSUFFICIENT_LIQUIDITY")
        ELSE Val(BigToInt(BigDiv(BigAdd(numerator, BigSub(denominator, <<1>>)), denominator)))

getAmountOut(amountIn, reserveIn, reserveOut) ==
    LET amountInWithFee == BigMulDigit(BigOf(amountIn), 997)
        numerator == BigMul(amountInWithFee, BigOf(reserveOut))
        denominator == BigAdd(BigMulDigit(BigOf(reserveIn), 1000), amountInWithFee)
    IN  IF ~(amountIn > 0) THEN Err("INSUFFICIENT_INPUT_AMOUNT")
        ELSE IF ~(reserveIn > 0 /\ reserveOut > 0) THEN Err("INSUFFICIENT_LIQUIDITY")
        ELSE Val(BigToInt(BigDiv(numerator, denominator)))

\* getAmountIn without the final add(1)
getAmountIn_NoRoundUp(amountOut, reserveIn, reserveOut) ==
    LET numerator == BigMulDigit(BigMul(BigOf(reserveIn), BigOf(amountOut)), 1000)
        denominator == BigMulDigit(BigOf(reserveOut - amountOut), 997)
    IN  IF ~(amountOut > 0) THEN Err("INSUFFICIENT_OUTPUT_AMOUNT")
        ELSE IF ~(reserveIn > 0 /\ reserveOut > 0) THEN Err("INSUFFICIENT_LIQUIDITY")
        ELSE IF reserveOut < amountOut THEN Err("SafeMath: subtraction overflow")
        ELSE IF reserveOut = amountOut THEN Err("Panic: division by zero")
        ELSE Val(BigToInt(BigDiv(numerator, denominator)))

\* getAmountIn with the factors 1000 and 997 exchanged
getAmountIn_FeeExchanged(amountOut, reserveIn, reserveOut) ==
    LET numerator == BigMulDigit(BigMul(BigOf(reserveIn), BigOf(amountOut)), 997)
        denominator == BigMulDigit(BigOf(reserveOut - amountOut), 1000)
    IN  IF ~(amountOut > 0) THEN Err("INSUFFICIENT_OUTPUT_AMOUNT")
        ELSE IF ~(reserveIn > 0 /\ reserveOut > 0) THEN Err("INSUFFICIENT_LIQUIDITY")
        ELSE IF reserveOut < amountOut THEN Err("SafeMath: subtraction overflow")
        ELSE IF reserveOut = amountOut THEN Err("Panic: division by zero")
        ELSE Val(BigToInt(BigDiv(numerator, denominator)) + 1)

getAmountIn(amountOut, reserveIn, reserveOut) ==
    LET numerator == BigMulDigit(BigMul(BigOf(reserveIn), BigOf(amountOut)), 1000)
        denominator == BigMulDigit(BigOf(reserveOut - amountOut), 997)
    IN  IF ~(amountOut > 0) THEN Err("INSUFFICIENT_OUTPUT_AMOUNT")
        ELSE IF ~(reserveIn > 0 /\ reserveOut > 0) THEN Err("INSUFFICIENT_LIQUIDITY")
        ELSE IF reserveOut < amountOut THEN Err("SafeMath: subtraction overflow")
        ELSE IF reserveOut = amountOut THEN Err("Panic: division by zero")
        ELSE Val(BigToInt(BigDiv(numerator, denominator)) + 1)

RECURSIVE getAmountsOutFrom(_, _, _, _)
\* getAmountsOut that quotes every hop for the first amount of the path
RECURSIVE getAmountsOutFrom_FirstAmount(_, _, _, _)
getAmountsOutFrom_FirstAmount(w, path, amounts, i) ==
    IF i > Len(path) - 1 THEN Val(amounts)
    ELSE LET reserves == getReserves(w, path[i], path[i + 1])
             out == getAmountOut(amounts[1], reserves.val[1], reserves.val[2])
         IN  IF ~reserves.ok THEN reserves
             ELSE IF ~out.ok THEN out
             ELSE getAmountsOutFrom_FirstAmount(w, path, Append(amounts, out.val), i + 1)

\* the loop of getAmountsOut from hop i on; amounts holds amounts[0..i-1]
getAmountsOutFrom(w, path, amounts, i) ==
    IF i > Len(path) - 1 THEN Val(amounts)
    ELSE LET reserves == getReserves(w, path[i], path[i + 1])
             out == getAmountOut(amounts[i], reserves.val[1], reserves.val[2])
         IN  IF ~reserves.ok THEN reserves
             ELSE IF ~out.ok THEN out
             ELSE getAmountsOutFrom(w, path, Append(amounts, out.val), i + 1)

getAmountsOut(w, amountIn, path) ==
    IF ~(Len(path) >= 2) THEN Err("INVALID_PATH")
    ELSE getAmountsOutFrom(w, path, <<amountIn>>, 1)

\* the loop of getAmountsIn from hop i down; amounts holds amounts[i..]
RECURSIVE getAmountsInFrom(_, _, _, _)
getAmountsInFrom(w, path, amounts, i) ==
    IF i = 1 THEN Val(amounts)
    ELSE LET reserves == getReserves(w, path[i - 1], path[i])
             in == getAmountIn(amounts[1], reserves.val[1], reserves.val[2])
         IN  IF ~reserves.ok THEN reserves
             ELSE IF ~in.ok THEN in
             ELSE getAmountsInFrom(w, path, <<in.val>> \o amounts, i - 1)

getAmountsIn(w, amountOut, path) ==
    IF ~(Len(path) >= 2) THEN Err("INVALID_PATH")
    ELSE getAmountsInFrom(w, path, <<amountOut>>, Len(path))

\* _calculateLiquidityAmounts that quotes with the two reserves exchanged
_calculateLiquidityAmounts_Crossed(w, tokenA, tokenB, amountADesired, amountBDesired, amountAMin, amountBMin) ==
    LET pair == pairFor(w, tokenA, tokenB)
        reserves == getReserves(w, tokenA, tokenB)
        reserveA == reserves.val[1]
        reserveB == reserves.val[2]
        amountBOptimal == quote(amountADesired, reserveB, reserveA)
        amountAOptimal == quote(amountBDesired, reserveA, reserveB)
    IN  IF pair = ZERO THEN Val(<<amountADesired, amountBDesired>>)
        ELSE IF ~reserves.ok THEN reserves
        ELSE IF reserveA = 0 /\ reserveB = 0 THEN Val(<<amountADesired, amountBDesired>>)
        ELSE IF ~amountBOptimal.ok THEN amountBOptimal
        ELSE IF amountBOptimal.val <= amountBDesired
             THEN IF ~(amountBOptimal.val >= amountBMin) THEN Err("INSUFFICIENT_B_AMOUNT")
                  ELSE Val(<<amountADesired, amountBOptimal.val>>)
        ELSE IF ~amountAOptimal.ok THEN amountAOptimal
        ELSE IF ~(amountAOptimal.val <= amountADesired) THEN Err("Panic: assert")
        ELSE IF ~(amountAOptimal.val >= amountAMin) THEN Err("INSUFFICIENT_A_AMOUNT")
        ELSE Val(<<amountAOptimal.val, amountBDesired>>)

_calculateLiquidityAmounts(w, tokenA, tokenB, amountADesired, amountBDesired, amountAMin, amountBMin) ==
    LET pair == pairFor(w, tokenA, tokenB)
        reserves == getReserves(w, tokenA, tokenB)
        reserveA == reserves.val[1]
        reserveB == reserves.val[2]
        amountBOptimal == quote(amountADesired, reserveA, reserveB)
        amountAOptimal == quote(amountBDesired, reserveB, reserveA)
    IN  IF pair = ZERO THEN Val(<<amountADesired, amountBDesired>>)
        ELSE IF ~reserves.ok THEN reserves
        ELSE IF reserveA = 0 /\ reserveB = 0 THEN Val(<<amountADesired, amountBDesired>>)
        ELSE IF ~amountBOptimal.ok THEN amountBOptimal
        ELSE IF amountBOptimal.val <= amountBDesired
             THEN IF ~(amountBOptimal.val >= amountBMin) THEN Err("INSUFFICIENT_B_AMOUNT")
                  ELSE Val(<<amountADesired, amountBOptimal.val>>)
        ELSE IF ~amountAOptimal.ok THEN amountAOptimal
        ELSE IF ~(amountAOptimal.val <= amountADesired) THEN Err("Panic: assert")
        ELSE IF ~(amountAOptimal.val >= amountAMin) THEN Err("INSUFFICIENT_A_AMOUNT")
        ELSE Val(<<amountAOptimal.val, amountBDesired>>)

----------------------------------------------------------------------------
(* DiamondRouter: state-changing functions.  Callers have approved the     *)
(* router for the tokens and shares they hold.                             *)

_safeTransferFrom(w, token, from, to, value) ==
    IF token \notin Tokens \/ to = ZERO THEN Revert(w, "TRANSFER_FAILED")
    ELSE transfer(w, token, from, to, value)

addLiquidity(w, sender, tokenA, tokenB, amountADesired, amountBDesired, amountAMin, amountBMin, to) ==
    LET existing == pairFor(w, tokenA, tokenB)
        created == IF existing = ZERO THEN createPair(w, tokenA, tokenB)
                   ELSE Return(w, <<existing>>)
        pair == created.ret[1]
        amounts == _calculateLiquidityAmounts(created.w, tokenA, tokenB, amountADesired,
                                              amountBDesired, amountAMin, amountBMin)
        amountA == amounts.val[1]
        amountB == amounts.val[2]
        sentA == _safeTransferFrom(created.w, tokenA, sender, pair, amountA)
        sentB == _safeTransferFrom(sentA.w, tokenB, sender, pair, amountB)
        minted == mint(sentB.w, pair, Router, to)
    IN  IF ~created.ok THEN Revert(w, created.err)
        ELSE IF ~amounts.ok THEN Revert(w, amounts.err)
        ELSE IF ~sentA.ok \/ ~sentB.ok THEN Revert(w, "TRANSFER_FAILED")
        ELSE IF ~minted.ok THEN Revert(w, minted.err)
        ELSE Return(minted.w, <<amountA, amountB, minted.ret[1]>>)

removeLiquidity(w, sender, tokenA, tokenB, liquidity, amountAMin, amountBMin, to) ==
    LET pair == pairFor(w, tokenA, tokenB)
        moved == transferShares(w, pair, sender, pair, liquidity)
        burned == burn(moved.w, pair, Router, to)
        amountA == burned.ret[1]
        amountB == burned.ret[2]
    IN  IF pair = ZERO THEN Revert(w, "NO_CONTRACT")
        ELSE IF ~moved.ok THEN Revert(w, moved.err)
        ELSE IF ~burned.ok THEN Revert(w, burned.err)
        ELSE IF ~(amountA >= amountAMin) THEN Revert(w, "INSUFFICIENT_A_AMOUNT")
        ELSE IF ~(amountB >= amountBMin) THEN Revert(w, "INSUFFICIENT_B_AMOUNT")
        ELSE Return(burned.w, <<amountA, amountB>>)

\* a loop whose failing hop keeps what the earlier hops did
RECURSIVE _swapFrom_KeepHops(_, _, _, _, _, _)
_swapFrom_KeepHops(w, entry, amounts, path, _to, i) ==
    IF i > Len(path) - 1 THEN Return(w, <<>>)
    ELSE LET input == path[i]
             output == path[i + 1]
             sorted == sortTokens(input, output)
             amountOut == amounts[i + 1]
             amount0Out == IF input = sorted.val[1] THEN 0 ELSE amountOut
             amount1Out == IF input = sorted.val[1] THEN amountOut ELSE 0
             to == IF i < Len(path) - 1 THEN pairFor(w, output, path[i + 2]) ELSE _to
             pair == pairFor(w, input, output)
             swapped == swap(w, pair, Router, amount0Out, amount1Out, to)
         IN  IF ~sorted.ok THEN Revert(w, sorted.err)
             ELSE IF pair = ZERO THEN Revert(w, "NO_CONTRACT")
             ELSE IF ~swapped.ok THEN Revert(w, swapped.err)
             ELSE _swapFrom_KeepHops(swapped.w, entry, amounts, path, _to, i + 1)

\* the loop of _swap from hop i on; `entry` is the state the router was called in
RECURSIVE _swapFrom(_, _, _, _, _, _)
RECURSIVE _swapFrom_ToRecipient(_, _, _, _, _, _)
\* _swap that sends the output of every hop to the final recipient
_swapFrom_ToRecipient(w, entry, amounts, path, _to, i) ==
    IF i > Len(path) - 1 THEN Return(w, <<>>)
    ELSE LET input == path[i]
             output == path[i + 1]
             sorted == sortTokens(input, output)
             amountOut == amounts[i + 1]
             amount0Out == IF input = sorted.val[1] THEN 0 ELSE amountOut
             amount1Out == IF input = sorted.val[1] THEN amountOut ELSE 0
             to == _to
             pair == pairFor(w, input, output)
             swapped == swap(w, pair, Router, amount0Out, amount1Out, to)
         IN  IF ~sorted.ok THEN Revert(entry, sorted.err)
             ELSE IF pair = ZERO THEN Revert(entry, "NO_CONTRACT")
             ELSE IF ~swapped.ok THEN Revert(entry, swapped.err)
             ELSE _swapFrom_ToRecipient(swapped.w, entry, amounts, path, _to, i + 1)

_swapFrom(w, entry, amounts, path, _to, i) ==
    IF i > Len(path) - 1 THEN Return(w, <<>>)
    ELSE LET input == path[i]
             output == path[i + 1]
             sorted == sortTokens(input, output)
             amountOut == amounts[i + 1]
             amount0Out == IF input = sorted.val[1] THEN 0 ELSE amountOut
             amount1Out == IF input = sorted.val[1] THEN amountOut ELSE 0
             to == IF i < Len(path) - 1 THEN pairFor(w, output, path[i + 2]) ELSE _to
             pair == pairFor(w, input, output)
             swapped == swap(w, pair, Router, amount0Out, amount1Out, to)
         IN  IF ~sorted.ok THEN Revert(entry, sorted.err)
             ELSE IF pair = ZERO THEN Revert(entry, "NO_CONTRACT")
             ELSE IF ~swapped.ok THEN Revert(entry, swapped.err)
             ELSE _swapFrom(swapped.w, entry, amounts, path, _to, i + 1)

_swap(w, entry, amounts, path, _to) == _swapFrom(w, entry, amounts, path, _to, 1)

swapExactTokensForTokens(w, sender, amountIn, amountOutMin, path, to) ==
    LET amounts == getAmountsOut(w, amountIn, path)
        paid == _safeTransferFrom(w, path[1], sender, pairFor(w, path[1], path[2]),
                                  amounts.val[1])
        swapped == _swap(paid.w, w, amounts.val, path, to)
    IN  IF ~amounts.ok THEN Revert(w, amounts.err)
        ELSE IF ~(amounts.val[Len(amounts.val)] >= amountOutMin)
             THEN Revert(w, "INSUFFICIENT_OUTPUT_AMOUNT")
        ELSE IF ~paid.ok THEN Revert(w, paid.err)
        ELSE IF ~swapped.ok THEN swapped
        ELSE Return(swapped.w, amounts.val)

\* swapTokensForExactTokens without the check against amountInMax
swapTokensForExactTokens_NoMaximum(w, sender, amountOut, amountInMax, path, to) ==
    LET amounts == getAmountsIn(w, amountOut, path)
        paid == _safeTransferFrom(w, path[1], sender, pairFor(w, path[1], path[2]),
                                  amounts.val[1])
        swapped == _swap(paid.w, w, amounts.val, path, to)
    IN  IF ~amounts.ok THEN Revert(w, amounts.err)
        ELSE IF ~paid.ok THEN Revert(w, paid.err)
        ELSE IF ~swapped.ok THEN swapped
        ELSE Return(swapped.w, amounts.val)

swapTokensForExactTokens(w, sender, amountOut, amountInMax, path, to) ==
    LET amounts == getAmountsIn(w, amountOut, path)
        paid == _safeTransferFrom(w, path[1], sender, pairFor(w, path[1], path[2]),
                                  amounts.val[1])
        swapped == _swap(paid.w, w, amounts.val, path, to)
    IN  IF ~amounts.ok THEN Revert(w, amounts.err)
        ELSE IF ~(amounts.val[1] <= amountInMax) THEN Revert(w, "EXCESSIVE_INPUT_AMOUNT")
        ELSE IF ~paid.ok THEN Revert(w, paid.err)
        ELSE IF ~swapped.ok THEN swapped
        ELSE Return(swapped.w, amounts.val)

----------------------------------------------------------------------------
(* Steps *)

MaxTime == 1    \* block.timestamp stays within 0..MaxTime

NoFrame == [active |-> FALSE, pair |-> ZERO, sender |-> ZERO, amount0Out |-> 0,
            amount1Out |-> 0, to |-> ZERO, reserve0 |-> 0, reserve1 |-> 0,
            entry |-> <<>>]

\* the record of a call: `path` is the path of a router swap, `data` tells a swap
\* with callback data, `nested` a call made from inside diamondCall, `deadline`
\* the deadline the caller of the router asked for
NoCall == [op |-> "", sender |-> ZERO, args |-> <<>>, path |-> <<>>, data |-> FALSE,
           nested |-> FALSE, deadline |-> 0, ok |-> TRUE, err |-> "", ret |-> <<>>]

Call(op, sender, args, r) ==
    [NoCall EXCEPT !.op = op, !.sender = sender, !.args = args,
                   !.ok = r.ok, !.err = r.err, !.ret = r.ret]

\* the chain state becomes w
Apply(w) ==
    /\ balances' = w.balances
    /\ getPair' = w.getPair
    /\ allPairs' = w.allPairs
    /\ feeTo' = w.feeTo
    /\ protocolFeeDenominator' = w.protocolFeeDenominator
    /\ pairs' = w.pairs
    /\ now' = w.now
    /\ zeroMintOk' = w.zeroMintOk

\* an external call sent by an account completes with result r
Complete(op, sender, args, r) ==
    /\ ~frame.active
    /\ Apply(r.w)
    /\ lastCall' = Call(op, sender, args, r)
    /\ frame' = NoFrame

\* the chain after deployment: the factory, the router and the tokens exist,
\* `holdings` are the token balances, no pair has been created
Deployed(holdings, zeroMint) ==
    [balances |-> holdings,
     getPair |-> [k \in TokenArgs \X TokenArgs |-> ZERO],
     allPairs |-> <<>>,
     feeTo |-> ZERO,
     protocolFeeDenominator |-> 5,
     pairs |-> [p \in PairAddrs |-> UndeployedPair],
     now |-> 0,
     zeroMintOk |-> zeroMint]

\* the chain state is w and no call is in progress
StartIn(w) ==
    /\ balances = w.balances
    /\ getPair = w.getPair
    /\ allPairs = w.allPairs
    /\ feeTo = w.feeTo
    /\ protocolFeeDenominator = w.protocolFeeDenominator
    /\ pairs = w.pairs
    /\ now = w.now
    /\ zeroMintOk = w.zeroMintOk
    /\ frame = NoFrame
    /\ lastCall = NoCall

\* token balances: `of[a]` of every token in `traded` for the accounts in DOMAIN of
Holdings(traded, of) ==
    [t \in Tokens |-> [a \in Addr |->
        IF t \in traded /\ a \in DOMAIN of THEN of[a] ELSE 0]]

\* a new block
Tick ==
    /\ ~frame.active
    /\ now < MaxTime
    /\ now' = now + 1
    /\ lastCall' = [NoCall EXCEPT !.op = "block"]
    /\ UNCHANGED <<balances, getPair, allPairs, feeTo, protocolFeeDenominator, pairs,
                   zeroMintOk, frame>>

TokenTransfer(from, token, to, value) ==
    Complete("transfer", from, <<token, to, value>>, transfer(World, token, from, to, value))

ShareTransfer(from, pair, to, value) ==
    Complete("transferShares", from, <<pair, to, value>>,
             transferShares(World, pair, from, to, value))

CreatePair(sender, tokenA, tokenB) ==
    Complete("createPair", sender, <<tokenA, tokenB>>, createPair(World, tokenA, tokenB))

SetFeeTo(_feeTo) ==
    Complete("setFeeTo", Factory, <<_feeTo>>, setFeeTo(World, _feeTo))

Mint(sender, pair, to) ==
    Complete("mint", sender, <<pair, to>>, mint(World, pair, sender, to))

Burn(sender, pair, to) ==
    Complete("burn", sender, <<pair, to>>, burn(World, pair, sender, to))

Skim(sender, pair, to) ==
    Complete("skim", sender, <<pair, to>>, skim(World, pair, sender, to))

Sync(sender, pair) ==
    Complete("sync", sender, <<pair>>, sync(World, pair, sender))

DeployPair(sender) ==
    Complete("deployPair", sender, <<>>, deployPair(World, sender))

Initialize(sender, pair, _token0, _token1) ==
    Complete("initialize", sender, <<pair, _token0, _token1>>,
             initialize(World, pair, sender, _token0, _token1))

\* swap with empty data
Swap(sender, pair, amount0Out, amount1Out, to) ==
    Complete("swap", sender, <<pair, amount0Out, amount1Out, to>>,
             swap(World, pair, sender, amount0Out, amount1Out, to))

\* swap with data: after the optimistic transfers the pair calls
\* IDiamondCallee(to).diamondCall and waits for it
SwapCall(sender, pair, amount0Out, amount1Out, to) ==
    LET r == swapBegin(World, pair, sender, amount0Out, amount1Out, to)
    IN  /\ ~frame.active
        /\ Apply(r.w)
        /\ IF r.ok
           THEN /\ frame' = [active |-> TRUE, pair |-> pair, sender |-> sender,
                             amount0Out |-> amount0Out, amount1Out |-> amount1Out,
                             to |-> to, reserve0 |-> r.ret[1], reserve1 |-> r.ret[2],
                             entry |-> World]
                /\ lastCall' = [Call("diamondCall", pair,
                                      <<pair, amount0Out, amount1Out, to>>, r)
                                    EXCEPT !.data = TRUE, !.ret = <<>>]
           ELSE /\ frame' = NoFrame
                /\ lastCall' = [Call("swap", sender,
                                      <<pair, amount0Out, amount1Out, to>>, r)
                                    EXCEPT !.data = TRUE]

\* inside diamondCall: the callee pays tokens into the pair
CalleePay(token, value) ==
    LET r == transfer(World, token, frame.to, frame.pair, value)
    IN  /\ frame.active
        /\ r.ok
        /\ Apply(r.w)
        /\ lastCall' = [Call("transfer", frame.to, <<token, frame.pair, value>>, r)
                            EXCEPT !.nested = TRUE]
        /\ UNCHANGED frame

\* the pair function `op` called by `sender` with recipient `to`
PairFunction(w, op, pair, sender, to) ==
    CASE op = "mint" -> mint(w, pair, sender, to)
      [] op = "burn" -> burn(w, pair, sender, to)
      [] op = "swap" -> swap(w, pair, sender, 1, 0, to)
      [] op = "skim" -> skim(w, pair, sender, to)
      [] op = "sync" -> sync(w, pair, sender)

\* inside diamondCall: the callee calls back into the pair and carries on
\* whatever the outcome (a callee that lets the failure propagate is CalleeFail)
CalleeReenter(op) ==
    LET r == PairFunction(World, op, frame.pair, frame.to, frame.to)
    IN  /\ frame.active
        /\ Apply(r.w)
        /\ lastCall' = [Call(op, frame.to, <<frame.pair, frame.to>>, r)
                            EXCEPT !.nested = TRUE]
        /\ UNCHANGED frame

\* diamondCall reverts, and swap with it
CalleeFail ==
    /\ frame.active
    /\ Apply(frame.entry)
    /\ lastCall' = [Call("swap", frame.sender,
                          <<frame.pair, frame.amount0Out, frame.amount1Out, frame.to>>,
                          Revert(frame.entry, "CALLBACK_FAILED"))
                        EXCEPT !.data = TRUE]
    /\ frame' = NoFrame

\* diamondCall returns, swap goes on to the balance reads
CalleeReturn ==
    LET r == swapFinish(World, frame.entry, frame.pair, frame.amount0Out,
                        frame.amount1Out, frame.reserve0, frame.reserve1)
    IN  /\ frame.active
        /\ Apply(r.w)
        /\ lastCall' = [Call("swap", frame.sender,
                              <<frame.pair, frame.amount0Out, frame.amount1Out, frame.to>>,
                              r)
                            EXCEPT !.data = TRUE]
        /\ frame' = NoFrame

\* a call of the router sent by an account completes with result r; the router
\* functions take no deadline, the one the caller asked for is only recorded
Routed(op, sender, args, path, deadline, r) ==
    /\ ~frame.active
    /\ Apply(r.w)
    /\ lastCall' = [Call(op, sender, args, r) EXCEPT !.path = path, !.deadline = deadline]
    /\ frame' = NoFrame

AddLiquidity(sender, tokenA, tokenB, amountADesired, amountBDesired, amountAMin, amountBMin, to, deadline) ==
    Routed("addLiquidity", sender,
           <<tokenA, tokenB, amountADesired, amountBDesired, amountAMin, amountBMin, to>>,
           <<>>, deadline,
           addLiquidity(World, sender, tokenA, tokenB, amountADesired, amountBDesired,
                        amountAMin, amountBMin, to))

RemoveLiquidity(sender, tokenA, tokenB, liquidity, amountAMin, amountBMin, to, deadline) ==
    Routed("removeLiquidity", sender,
           <<tokenA, tokenB, liquidity, amountAMin, amountBMin, to>>, <<>>, deadline,
           removeLiquidity(World, sender, tokenA, tokenB, liquidity, amountAMin,
                           amountBMin, to))

SwapExactTokensForTokens(sender, amountIn, amountOutMin, path, to, deadline) ==
    Routed("swapExactTokensForTokens", sender, <<amountIn, amountOutMin, to>>, path,
           deadline, swapExactTokensForTokens(World, sender, amountIn, amountOutMin, path, to))

SwapTokensForExactTokens(sender, amountOut, amountInMax, path, to, deadline) ==
    Routed("swapTokensForExactTokens", sender, <<amountOut, amountInMax, to>>, path,
           deadline, swapTokensForExactTokens(World, sender, amountOut, amountInMax, path, to))

RouterOps == {"addLiquidity", "removeLiquidity", "swapExactTokensForTokens",
              "swapTokensForExactTokens"}

----------------------------------------------------------------------------
(* Specification SpecMint: the pair of tokens 1 and 2, created by the      *)
(* deployment script; Alice pays tokens in, mints and burns shares.        *)

P12 == PairAddress(1, 2)
DepositAmounts == {1000, 2000}
ShareAmounts == {400, 1000}

MintInit ==
    \E zeroMint \in BOOLEAN :
        StartIn(createPair(Deployed(Holdings({1, 2}, Alice :> 3000), zeroMint), 1, 2).w)

MintNext ==
    \/ \E t \in {1, 2}, v \in DepositAmounts : TokenTransfer(Alice, t, P12, v)
    \/ Mint(Alice, P12, Alice)
    \/ \E v \in ShareAmounts : ShareTransfer(Alice, P12, P12, v)
    \/ Burn(Alice, P12, Borrower)
    \/ \E f \in {ZERO, Collector} : SetFeeTo(f)
    \/ Tick

SpecMint == MintInit /\ [][MintNext]_vars

----------------------------------------------------------------------------
(* Specification SpecSwap: the pair of tokens 1 and 2 after Alice has paid *)
(* 2000 of each token in and called mint (or sync, where the ERC20 base    *)
(* refuses to mint to address(0)); Alice swaps, Borrower flash-swaps.      *)

Funded(zeroMint) ==
    LET created == createPair(Deployed(Holdings({1, 2}, Alice :> 2100 @@ Borrower :> 2),
                                       zeroMint), 1, 2).w
        paid0 == transfer(created, 1, Alice, P12, 2000).w
        paid1 == transfer(paid0, 2, Alice, P12, 2000).w
        minted == mint(paid1, P12, Alice, Alice)
    IN  IF minted.ok THEN minted.w ELSE sync(paid1, P12, Alice).w

InAmounts == {100}
OutChoices == {<<0, 0>>, <<0, 94>>, <<0, 95>>, <<0, 200>>, <<2000, 0>>}
FlashChoices == {<<0, 0>>, <<500, 0>>, <<2000, 0>>}
ZeroOutRecipients == {Borrower, 1, P12}
RepayChoices == {<<1, 500>>, <<1, 502>>}
Nestable == {"mint", "burn", "swap", "skim", "sync"}

SwapInit == \E zeroMint \in BOOLEAN : StartIn(Funded(zeroMint))

SwapNext ==
    \/ \E v \in InAmounts : TokenTransfer(Alice, 1, P12, v)
    \/ \E out \in OutChoices : Swap(Alice, P12, out[1], out[2], Alice)
    \/ \E to \in ZeroOutRecipients : Swap(Alice, P12, 0, 0, to)
    \/ \E out \in FlashChoices : SwapCall(Alice, P12, out[1], out[2], Borrower)
    \/ \E pay \in RepayChoices : CalleePay(pay[1], pay[2])
    \/ \E op \in Nestable : CalleeReenter(op)
    \/ CalleeFail
    \/ CalleeReturn
    \/ Tick

SpecSwap == SwapInit /\ [][SwapNext]_vars

-----------------------------------------------------------------------------
(* Specification SpecPool: the pair of tokens 1 and 2 from its creation;   *)
(* Alice pays in and calls mint, burn, swap, skim and sync; the owner may   *)
(* turn the protocol fee on.                                               *)

PoolDeposits == {2000}
PoolShares == {500}
PoolOuts == {<<0, 100>>, <<100, 0>>, <<0, 2000>>}
SkimRecipients == {Borrower, P12}

PoolInit ==
    \E zeroMint \in BOOLEAN :
        StartIn(createPair(Deployed(Holdings({1, 2}, Alice :> 4000), zeroMint), 1, 2).w)

PoolNext ==
    \/ \E t \in {1, 2}, v \in PoolDeposits : TokenTransfer(Alice, t, P12, v)
    \/ Mint(Alice, P12, Alice)
    \/ \E v \in PoolShares \cup {pairs[P12].balanceOf[Alice]} :
          ShareTransfer(Alice, P12, P12, v)
    \/ Burn(Alice, P12, Borrower)
    \/ \E out \in PoolOuts : Swap(Alice, P12, out[1], out[2], Borrower)
    \/ \E to \in SkimRecipients : Skim(Alice, P12, to)
    \/ Sync(Alice, P12)
    \/ \E f \in {ZERO, Collector} : SetFeeTo(f)

SpecPool == PoolInit /\ [][PoolNext]_vars

-----------------------------------------------------------------------------
(* Specification SpecShares: the pair of tokens 1 and 2 from its creation; *)
(* Alice pays in 1000 at a time, calls mint, sync and burn; the owner may  *)
(* turn the protocol fee on.                                               *)

ShareDeposits == {1000}
SharesReturned == {500}

SharesInit ==
    LET held == [t \in Tokens |-> [a \in Addr |->
                    IF a = Alice THEN <<4000, 3000, 0, 0>>[t] ELSE 0]]
    IN  \E zeroMint \in BOOLEAN : StartIn(createPair(Deployed(held, zeroMint), 1, 2).w)

SharesNext ==
    \/ \E t \in {1, 2}, v \in ShareDeposits : TokenTransfer(Alice, t, P12, v)
    \/ Mint(Alice, P12, Alice)
    \/ Sync(Alice, P12)
    \/ \E v \in SharesReturned : ShareTransfer(Alice, P12, P12, v)
    \/ Burn(Alice, P12, Borrower)
    \/ SetFeeTo(Collector)

SpecShares == SharesInit /\ [][SharesNext]_vars

----------------------------------------------------------------------------
(* Specification SpecQuote: the router's pure quoting functions applied to *)
(* bounded arguments.                                                      *)

MaxQuote == 12
QuoteValues == 1..MaxQuote \cup {997, 1000, 2000}

\* a pure function returned (or reverted with) v
Computed(op, args, v) ==
    /\ lastCall' = [NoCall EXCEPT !.op = op, !.sender = Alice, !.args = args,
                                  !.ok = v.ok, !.err = v.err, !.ret = <<v.val>>]
    /\ UNCHANGED <<balances, getPair, allPairs, feeTo, protocolFeeDenominator, pairs,
                   now, zeroMintOk, frame>>

\* the arguments of the next quote: lastCall.args with no function applied yet
Asked(x, reserveIn, reserveOut) ==
    /\ \E zeroMint \in BOOLEAN :
          /\ balances = Deployed(Holdings({}, <<>>), zeroMint).balances
          /\ getPair = Deployed(Holdings({}, <<>>), zeroMint).getPair
          /\ allPairs = <<>>
          /\ feeTo = ZERO
          /\ protocolFeeDenominator = 5
          /\ pairs = Deployed(Holdings({}, <<>>), zeroMint).pairs
          /\ now = 0
          /\ zeroMintOk = zeroMint
    /\ frame = NoFrame
    /\ lastCall = [NoCall EXCEPT !.args = <<x, reserveIn, reserveOut>>]

GetAmountOut ==
    /\ lastCall.op = ""
    /\ Computed("getAmountOut", lastCall.args,
                getAmountOut(lastCall.args[1], lastCall.args[2], lastCall.args[3]))

GetAmountIn ==
    /\ lastCall.op = ""
    /\ Computed("getAmountIn", lastCall.args,
                getAmountIn(lastCall.args[1], lastCall.args[2], lastCall.args[3]))

QuoteInit ==
    \E x \in QuoteValues \cup {0}, rIn \in QuoteValues \cup {0}, rOut \in QuoteValues \cup {0} :
        Asked(x, rIn, rOut)

QuoteNext ==
    \/ GetAmountOut
    \/ GetAmountIn

SpecQuote == QuoteInit /\ [][QuoteNext]_vars

----------------------------------------------------------------------------
(* Specification SpecFactory: accounts call createPair on the deployed     *)
(* factory with every pair of arguments; the owner sets feeTo.             *)

CreateArgs == {ZERO, 1, 2, 3}

FactoryInit == \E zeroMint \in BOOLEAN : StartIn(Deployed(Holdings({}, <<>>), zeroMint))

FactoryNext ==
    \/ \E sender \in {Alice, Borrower}, tokenA \in CreateArgs, tokenB \in CreateArgs :
          CreatePair(sender, tokenA, tokenB)
    \/ \E f \in {ZERO, Collector} : SetFeeTo(f)

SpecFactory == FactoryInit /\ [][FactoryNext]_vars

-----------------------------------------------------------------------------
(* Specification SpecInitialize: accounts call initialize on a pair the    *)
(* factory created and on a pair that Alice deployed herself.              *)

InitializeArgs == {1, 2, 3}

InitializeNext ==
    \/ CreatePair(Alice, 1, 2)
    \/ DeployPair(Alice)
    \/ \E sender \in {Alice, Borrower}, pair \in {PairAddress(1, 2), OwnPair} :
          \E _token0 \in InitializeArgs, _token1 \in InitializeArgs :
              Initialize(sender, pair, _token0, _token1)

SpecInitialize == FactoryInit /\ [][InitializeNext]_vars

----------------------------------------------------------------------------
(* Specification SpecLiquidity: Alice adds liquidity to the pair of tokens *)
(* 1 and 2 through the router and removes all her shares, paid out to      *)
(* Borrower; she may pay tokens straight into the pair and call sync.      *)

AddChoices == {<<1, 2, 1000, 2000>>, <<2, 1, 2000, 1000>>, <<1, 2, 2000, 2000>>}
RemoveMinimums == {<<200, 500>>, <<500, 200>>}
Donations == {1000}
Deadlines == {0, MaxTime}

LiquidityInit ==
    \E zeroMint \in BOOLEAN :
        StartIn(createPair(Deployed(Holdings({1, 2}, Alice :> 3000), zeroMint), 1, 2).w)

LiquidityNext ==
    \/ \E c \in AddChoices, deadline \in Deadlines :
          AddLiquidity(Alice, c[1], c[2], c[3], c[4], 0, 0, Alice, deadline)
    \/ \E tokens \in {<<1, 2>>, <<2, 1>>}, m \in RemoveMinimums :
          RemoveLiquidity(Alice, tokens[1], tokens[2], pairs[P12].balanceOf[Alice],
                          m[1], m[2], Borrower, MaxTime)
    \/ \E v \in Donations : TokenTransfer(Alice, 1, P12, v)
    \/ Sync(Alice, P12)
    \/ Tick

SpecLiquidity == LiquidityInit /\ [][LiquidityNext]_vars

-----------------------------------------------------------------------------
(* Specification SpecAdd: no pair exists after deployment; Alice adds      *)
(* liquidity for tokens 1 and 2 through the router with and without        *)
(* minimums; the pair may also be created directly, paid into and synced.  *)

AddAmounts == {<<1, 2, 1000, 2000>>, <<2, 1, 2000, 1000>>, <<1, 2, 2000, 2000>>, <<2, 1, 2000, 0>>}
AddMinimums == {<<0, 0>>, <<1000, 1000>>, <<2000, 2000>>}

AddInit ==
    \E zeroMint \in BOOLEAN :
        StartIn(Deployed(Holdings({1, 2}, Alice :> 4000), zeroMint))

AddNext ==
    \/ \E c \in AddAmounts, m \in AddMinimums :
          AddLiquidity(Alice, c[1], c[2], c[3], c[4], m[1], m[2], Alice, MaxTime)
    \/ CreatePair(Alice, 1, 2)
    \/ \E t \in {1, 2}, v \in Donations : TokenTransfer(Alice, t, P12, v)
    \/ Sync(Alice, P12)

SpecAdd == AddInit /\ [][AddNext]_vars

----------------------------------------------------------------------------
(* Specification SpecRoute: the pools (1,2), (2,3) and (3,4) hold          *)
(* (1000, 1000), (1000, 2000) and (2000, 1000); Alice swaps along paths.   *)

\* the pair of tokenA < tokenB is created and holds reserves (a, b)
Fund(w, tokenA, tokenB, a, b) ==
    LET created == createPair(w, tokenA, tokenB)
        pair == created.ret[1]
        paid0 == transfer(created.w, tokenA, Alice, pair, a).w
        paid1 == transfer(paid0, tokenB, Alice, pair, b).w
        minted == mint(paid1, pair, Alice, Alice)
    IN  IF minted.ok THEN minted.w ELSE sync(paid1, pair, Alice).w

Pools(zeroMint) ==
    LET held == [t \in Tokens |-> [a \in Addr |->
                    IF a = Alice THEN <<1100, 2000, 4000, 1000>>[t] ELSE 0]]
    IN  Fund(Fund(Fund(Deployed(held, zeroMint), 1, 2, 1000, 1000), 2, 3, 1000, 2000),
             3, 4, 2000, 1000)

Paths == {<<1, 2, 3>>, <<1, 2, 3, 4>>, <<1, 2, 1>>}
SwapAmounts == {100}
OutMinimums == {75, 76}
ExactOuts == {75}
InMaximums == {97, 98}
Recipients == {Alice, 3}

RouteInit == \E zeroMint \in BOOLEAN : StartIn(Pools(zeroMint))

RouteNext ==
    \/ \E amountIn \in SwapAmounts, amountOutMin \in OutMinimums, path \in Paths,
          to \in Recipients, deadline \in Deadlines :
          SwapExactTokensForTokens(Alice, amountIn, amountOutMin, path, to, deadline)
    \/ \E amountOut \in ExactOuts, amountInMax \in InMaximums, path \in Paths,
          to \in Recipients, deadline \in Deadlines :
          SwapTokensForExactTokens(Alice, amountOut, amountInMax, path, to, deadline)
    \/ Tick

SpecRoute == RouteInit /\ [][RouteNext]_vars

----------------------------------------------------------------------------
(* Specification SpecPath: getAmountsOut and getAmountsIn asked along      *)
(* paths over the pools of SpecRoute, before and after Alice's swaps.      *)

PathChoices == {<<>>, <<1>>, <<1, 1>>, <<1, 3>>, <<1, 2>>, <<2, 1>>, <<3, 2>>,
                <<1, 2, 3, 4>>, <<4, 3, 2, 1>>}
PathAmounts == {0, 1, 75, 100}

\* a view function of the router returned (or reverted with) v
Viewed(op, args, path, v) ==
    /\ ~frame.active
    /\ lastCall' = [NoCall EXCEPT !.op = op, !.sender = Alice, !.args = args, !.path = path,
                                  !.ok = v.ok, !.err = v.err, !.ret = v.val]
    /\ UNCHANGED <<balances, getPair, allPairs, feeTo, protocolFeeDenominator, pairs,
                   now, zeroMintOk, frame>>

GetAmountsOut(amountIn, path) ==
    Viewed("getAmountsOut", <<amountIn>>, path, getAmountsOut(World, amountIn, path))

GetAmountsIn(amountOut, path) ==
    Viewed("getAmountsIn", <<amountOut>>, path, getAmountsIn(World, amountOut, path))

PathNext ==
    \/ \E amountIn \in PathAmounts, path \in PathChoices : GetAmountsOut(amountIn, path)
    \/ \E amountOut \in PathAmounts, path \in PathChoices : GetAmountsIn(amountOut, path)
    \/ \E path \in {<<1, 2>>, <<1, 2, 3>>} :
          SwapExactTokensForTokens(Alice, 100, 0, path, Alice, MaxTime)

SpecPath == RouteInit /\ [][PathNext]_vars

\* The price oracle: one pool through deposits, mints, burns, swaps and syncs
\* while time passes.
OracleDeposits == {1000}
OracleShares == {500}
OracleOuts == {<<0, 100>>}

OracleInit ==
    LET held == [t \in Tokens |-> [a \in Addr |->
                    IF a = Alice THEN <<3000, 2000, 0, 0>>[t] ELSE 0]]
    IN  \E zeroMint \in BOOLEAN : StartIn(createPair(Deployed(held, zeroMint), 1, 2).w)

OracleNext ==
    \/ \E t \in {1, 2}, v \in OracleDeposits : TokenTransfer(Alice, t, P12, v)
    \/ Mint(Alice, P12, Alice)
    \/ \E v \in OracleShares : ShareTransfer(Alice, P12, P12, v)
    \/ Burn(Alice, P12, Borrower)
    \/ \E out \in OracleOuts : Swap(Alice, P12, out[1], out[2], Borrower)
    \/ Sync(Alice, P12)
    \/ Tick

SpecOracle == OracleInit /\ [][OracleNext]_vars

\* Swaps of exact inputs along short paths, among them a path through the same
\* pool twice, over pools that also receive donations. Alice pays out of what
\* she kept after funding the pools and Borrower receives the outputs.
HopPaths == {<<1, 2>>, <<2, 1>>, <<2, 3>>, <<1, 2, 3>>, <<3, 2, 1>>, <<1, 2, 1>>}
HopAmounts(token) == IF token = 2 THEN {1, 2} ELSE {100}
HopMinimums == {0, 76}
HopDonations == {50}

HopInit ==
    LET held == [t \in Tokens |-> [a \in Addr |->
                    IF a = Alice THEN <<1150, 2002, 2100, 0>>[t] ELSE 0]]
    IN  \E zeroMint \in BOOLEAN :
            StartIn(Fund(Fund(Deployed(held, zeroMint), 1, 2, 1000, 1000), 2, 3, 1000, 2000))

HopNext ==
    \/ \E path \in HopPaths, amountOutMin \in HopMinimums :
          \E amountIn \in HopAmounts(path[1]) :
              SwapExactTokensForTokens(Alice, amountIn, amountOutMin, path, Borrower, MaxTime)
    \/ \E v \in HopDonations : TokenTransfer(Alice, 1, P12, v)

SpecHops == HopInit /\ [][HopNext]_vars

----------------------------------------------------------------------------
(* Claims *)

\* C9: for positive amountOut, reserveIn, reserveOut with amountOut < reserveOut,
\* getAmountOut(getAmountIn(amountOut, reserveIn, reserveOut), reserveIn, reserveOut)
\* is at least amountOut.
C9_RoundTripNeverFavorsCaller ==
    (lastCall.op = "getAmountIn" /\ lastCall.args[1] > 0 /\ lastCall.args[2] > 0
       /\ lastCall.args[1] < lastCall.args[3])
    => /\ lastCall.ok
       /\ LET back == getAmountOut(lastCall.ret[1], lastCall.args[2], lastCall.args[3])
          IN  back.ok /\ back.val >= lastCall.args[1]

\* a quote whose round trip returns strictly more than was asked for
C9_Witness ==
    /\ lastCall.op = "getAmountIn" /\ lastCall.ok
    /\ lastCall.args = <<5, 1000, 12>>
    /\ getAmountOut(lastCall.ret[1], 1000, 12).val >= 5


\* C1: every swap that commits satisfies
\* (balance0*1000 - amount0In*3) * (balance1*1000 - amount1In*3)
\*   >= reserve0 * reserve1 * 1000^2 on the reserves recorded before it, and the
\* product reserve0 * reserve1 recorded after it is at least the one before.
C1_SwapNeverLowersK ==
    [][(lastCall'.op = "swap" /\ lastCall'.ok) =>
        LET p == lastCall'.args[1]
            in0 == lastCall'.ret[1]
            in1 == lastCall'.ret[2]
            r0 == pairs[p].reserve0
            r1 == pairs[p].reserve1
            b0 == pairs'[p].reserve0
            b1 == pairs'[p].reserve1
        IN  /\ b0 * b1 >= r0 * r1
            /\ BigLeq(BigMul(BigOf(r0 * r1), BigOf(1000000)),
                      BigMul(BigOf(b0 * 1000 - in0 * 3), BigOf(b1 * 1000 - in1 * 3)))
            /\ b0 = balances'[pairs[p].token0][p]
            /\ b1 = balances'[pairs[p].token1][p]]_vars

\* Alice paid 100 of token 1 in and took 94 of token 2 out
C1_Witness ==
    /\ lastCall.op = "swap" /\ lastCall.ok /\ ~lastCall.data
    /\ pairs[P12].reserve0 = 2100 /\ pairs[P12].reserve1 = 1906

\* C6: a swap that fails after its optimistic transfers (the callback fails, no
\* input was paid, or the K check fails) leaves every balance and the pair's
\* reserves, accumulators and timestamp as they were before the call; it fails
\* with INSUFFICIENT_INPUT_AMOUNT only when neither implied input is positive.
C6_FailedSwapRetainsNothing ==
    [][(/\ lastCall'.op = "swap" /\ ~lastCall'.ok /\ ~lastCall'.nested
        /\ lastCall'.err \in {"CALLBACK_FAILED", "INSUFFICIENT_INPUT_AMOUNT", "K"}) =>
        LET before == IF frame.active THEN frame.entry ELSE World
            p == lastCall'.args[1]
            out0 == lastCall'.args[2]
            out1 == lastCall'.args[3]
            P == before.pairs[p]
            new0 == IF frame.active THEN balances[P.token0][p]
                    ELSE balances[P.token0][p] - out0
            new1 == IF frame.active THEN balances[P.token1][p]
                    ELSE balances[P.token1][p] - out1
            in0 == IF new0 > P.reserve0 - out0 THEN new0 - (P.reserve0 - out0) ELSE 0
            in1 == IF new1 > P.reserve1 - out1 THEN new1 - (P.reserve1 - out1) ELSE 0
        IN  /\ balances' = before.balances
            /\ pairs' = before.pairs
            /\ lastCall'.err = "INSUFFICIENT_INPUT_AMOUNT" => (in0 = 0 /\ in1 = 0)
            /\ lastCall'.err = "K" => (in0 > 0 \/ in1 > 0)]_vars

\* a flash swap of 500 that Borrower repaid with only 500 failed the K check,
\* and Borrower and the pair hold what they held before
C6_Witness ==
    /\ lastCall.op = "swap" /\ lastCall.err = "K" /\ lastCall.data
    /\ balances[1][Borrower] = 2
    /\ balances[1][P12] = pairs[P12].reserve0

\* C8: while a swap waits for its callback the pair's guard is entered and the
\* pair's storage is what it was when swap was called; every call of mint, burn,
\* swap, skim or sync made from inside the callback fails on the guard; once no
\* call is in progress the guard is clear and no outer call is refused by it.
C8_NoReentrancy ==
    /\ frame.active =>
          /\ pairs[frame.pair].status = "ENTERED"
          /\ [pairs[frame.pair] EXCEPT !.status = "NOT_ENTERED"] =
                 frame.entry.pairs[frame.pair]
    /\ ~frame.active => \A p \in PairAddrs : pairs[p].status = "NOT_ENTERED"
    /\ (lastCall.nested /\ lastCall.op \in Nestable) =>
          (~lastCall.ok /\ lastCall.err = "ReentrancyGuard: reentrant call")
    /\ ~lastCall.nested => lastCall.err # "ReentrancyGuard: reentrant call"

\* inside the callback of a flash swap, a nested sync has just been refused
C8_Witness ==
    /\ frame.active
    /\ lastCall.nested /\ lastCall.op = "sync" /\ ~lastCall.ok
    /\ balances[1][Borrower] = 502

\* C2: a first mint into an empty pair holding deposits (a, b) with
\* floor(sqrt(a*b)) > MINIMUM_LIQUIDITY succeeds, credits MINIMUM_LIQUIDITY shares
\* to address(0) and floor(sqrt(a*b)) - MINIMUM_LIQUIDITY to `to`, and leaves
\* totalSupply = floor(sqrt(a*b)) and reserves (a, b).
C2_FirstMintLocksMinimum ==
    [][LET p == lastCall'.args[1]
           to == lastCall'.args[2]
           a == balances[pairs[p].token0][p]
           b == balances[pairs[p].token1][p]
       IN  (/\ lastCall'.op = "mint"
            /\ pairs[p].totalSupply = 0 /\ pairs[p].reserve0 = 0 /\ pairs[p].reserve1 = 0
            /\ sqrt(a * b) > MINIMUM_LIQUIDITY) =>
           /\ lastCall'.ok
           /\ pairs'[p].balanceOf[ZERO] = MINIMUM_LIQUIDITY
           /\ pairs'[p].balanceOf[to] = sqrt(a * b) - MINIMUM_LIQUIDITY
           /\ pairs'[p].totalSupply = sqrt(a * b)
           /\ pairs'[p].reserve0 = a /\ pairs'[p].reserve1 = b]_vars

\* C5: createPair(tokenA, tokenB) succeeds exactly when the tokens differ,
\* neither is address(0) and no pair is registered for them in either order;
\* otherwise it fails with IDENTICAL_ADDRESSES, ZERO_ADDRESS or PAIR_EXISTS
\* respectively and leaves the registry and the pairs unchanged.  A call that
\* succeeds registers one new pair under both orders, so of two calls for the
\* same unordered pair the later one fails with PAIR_EXISTS, and no pair is
\* listed twice.
C5_CreatePairOncePerPair ==
    [][lastCall'.op = "createPair" =>
        LET tokenA == lastCall'.args[1]
            tokenB == lastCall'.args[2]
            exists == getPair[<<tokenA, tokenB>>] # ZERO \/ getPair[<<tokenB, tokenA>>] # ZERO
        IN  /\ lastCall'.ok <=> (tokenA # tokenB /\ tokenA # ZERO /\ tokenB # ZERO /\ ~exists)
            /\ ~lastCall'.ok =>
                  /\ lastCall'.err = IF tokenA = tokenB THEN "IDENTICAL_ADDRESSES"
                                     ELSE IF tokenA = ZERO \/ tokenB = ZERO THEN "ZERO_ADDRESS"
                                     ELSE "PAIR_EXISTS"
                  /\ getPair' = getPair /\ allPairs' = allPairs /\ pairs' = pairs
            /\ lastCall'.ok =>
                  /\ lastCall'.ret[1] # ZERO
                  /\ getPair'[<<tokenA, tokenB>>] = lastCall'.ret[1]
                  /\ getPair'[<<tokenB, tokenA>>] = lastCall'.ret[1]
                  /\ allPairs' = Append(allPairs, lastCall'.ret[1])
                  /\ \A i \in 1..Len(allPairs) : allPairs[i] # lastCall'.ret[1]]_vars

\* Borrower's createPair(2, 1) failed with PAIR_EXISTS on the pair that
\* createPair(1, 2) had registered
C5_Witness ==
    /\ lastCall.op = "createPair" /\ lastCall.sender = Borrower
    /\ lastCall.args = <<2, 1>> /\ lastCall.err = "PAIR_EXISTS"
    /\ allPairs = <<PairAddress(1, 2)>>

\* C3: removeLiquidity(tokenA, tokenB, shares, minA, minB, to), for either order
\* of the tokens, succeeds only if burn paid at least minA of tokenA and at least
\* minB of tokenB to `to`, and returns the tokenA and tokenB amounts in that
\* order; when a minimum is not met the shares, the reserves and all token
\* balances are as before the call.
C3_RemoveLiquidityMinimums ==
    [][lastCall'.op = "removeLiquidity" =>
        LET tokenA == lastCall'.args[1]
            tokenB == lastCall'.args[2]
            to == lastCall'.args[6]
            paidA == balances'[tokenA][to] - balances[tokenA][to]
            paidB == balances'[tokenB][to] - balances[tokenB][to]
        IN  /\ lastCall'.ok =>
                  /\ paidA >= lastCall'.args[4]
                  /\ paidB >= lastCall'.args[5]
                  /\ lastCall'.ret = <<paidA, paidB>>
            /\ lastCall'.err \in {"INSUFFICIENT_A_AMOUNT", "INSUFFICIENT_B_AMOUNT"} =>
                  (balances' = balances /\ pairs' = pairs)]_vars

\* C4: a call of swapExactTokensForTokens, swapTokensForExactTokens,
\* addLiquidity or removeLiquidity made when block.timestamp is past the
\* caller's deadline fails.
C4_DeadlineEnforced ==
    (lastCall.op \in RouterOps /\ now > lastCall.deadline) => ~lastCall.ok

\* C7: swapExactTokensForTokens with amountOutMin above the last amount of
\* getAmountsOut fails; a router swap that fails, on its minimum or on any hop,
\* leaves every token balance and every pair as before the call.
C7_FailedRouteRetainsNothing ==
    [][lastCall'.op \in {"swapExactTokensForTokens", "swapTokensForExactTokens"} =>
        LET computed == getAmountsOut(World, lastCall'.args[1], lastCall'.path)
        IN  /\ (/\ lastCall'.op = "swapExactTokensForTokens"
                /\ computed.ok
                /\ lastCall'.args[2] > computed.val[Len(computed.val)]) => ~lastCall'.ok
            /\ ~lastCall'.ok => (balances' = balances /\ pairs' = pairs)]_vars

\* the swap of 100 along [1, 2, 3] to the address of token 3 failed on its
\* second hop, and the pool of the first hop holds what it held
C7_Witness ==
    /\ lastCall.op = "swapExactTokensForTokens" /\ lastCall.err = "INVALID_TO"
    /\ lastCall.path = <<1, 2, 3>>
    /\ balances[1][P12] = pairs[P12].reserve0
    /\ balances[1][Alice] = 100

\* C10 as stated: whatever the pool held before, removing the shares returned
\* by a successful addLiquidity straight away pays at most the amounts deposited.
C10_RoundTripAnyPool ==
    [][(lastCall'.op = "addLiquidity" /\ lastCall'.ok) =>
        LET tokenA == lastCall'.args[1]
            tokenB == lastCall'.args[2]
            removed == removeLiquidity(World', lastCall'.sender, tokenA, tokenB,
                                       lastCall'.ret[3], 0, 0, Borrower)
        IN  /\ removed.ok
            /\ removed.w.balances[tokenA][Borrower] - balances'[tokenA][Borrower]
                  <= lastCall'.ret[1]
            /\ removed.w.balances[tokenB][Borrower] - balances'[tokenB][Borrower]
                  <= lastCall'.ret[2]]_vars

\* the pool holds no tokens beyond its reserves, and has shares or is empty
Settled(pair) ==
    /\ balances[pairs[pair].token0][pair] = pairs[pair].reserve0
    /\ balances[pairs[pair].token1][pair] = pairs[pair].reserve1
    /\ pairs[pair].totalSupply > 0 \/ (pairs[pair].reserve0 = 0 /\ pairs[pair].reserve1 = 0)

\* C10: for a pool whose token balances equal its reserves and that has shares
\* or is empty, a successful addLiquidity depositing (amountA, amountB) and
\* returning `shares`, followed at once by removeLiquidity of `shares`, pays out
\* at most amountA of tokenA and at most amountB of tokenB.
C10_RoundTripSettledPool ==
    [][(/\ lastCall'.op = "addLiquidity" /\ lastCall'.ok
        /\ Settled(getPair'[<<lastCall'.args[1], lastCall'.args[2]>>])) =>
        LET tokenA == lastCall'.args[1]
            tokenB == lastCall'.args[2]
            removed == removeLiquidity(World', lastCall'.sender, tokenA, tokenB,
                                       lastCall'.ret[3], 0, 0, Borrower)
        IN  /\ removed.ok
            /\ removed.w.balances[tokenA][Borrower] - balances'[tokenA][Borrower]
                  <= lastCall'.ret[1]
            /\ removed.w.balances[tokenB][Borrower] - balances'[tokenB][Borrower]
                  <= lastCall'.ret[2]]_vars

\* Alice added (1000, 1000) to the pool that held (2000, 2000) in reserves and
\* balances, and removing the 1000 shares she received pays (1000, 1000)
C10_Witness ==
    /\ lastCall.op = "addLiquidity" /\ lastCall.ok
    /\ lastCall.ret = <<1000, 1000, 1000>>
    /\ pairs[P12].reserve0 = 3000 /\ pairs[P12].reserve1 = 3000
    /\ removeLiquidity(World, Alice, 1, 2, 1000, 0, 0, Borrower).ret = <<1000, 1000>>

\* C11: swap(0, 0, to, data), for every recipient and with or without callback
\* data, fails with INSUFFICIENT_OUTPUT_AMOUNT, starts no callback and leaves
\* every balance and the pair unchanged.
C11_ZeroOutputRefused ==
    [][(/\ lastCall'.op = "swap" /\ ~lastCall'.nested
        /\ lastCall'.args[2] = 0 /\ lastCall'.args[3] = 0) =>
        /\ ~lastCall'.ok
        /\ lastCall'.err = "INSUFFICIENT_OUTPUT_AMOUNT"
        /\ ~frame'.active
        /\ balances' = balances
        /\ pairs' = pairs]_vars

\* swap(0, 0, Borrower, data) was refused although Alice had paid 100 into the
\* pair beforehand
C11_Witness ==
    /\ lastCall.op = "swap" /\ lastCall.data
    /\ lastCall.args = <<P12, 0, 0, Borrower>>
    /\ lastCall.err = "INSUFFICIENT_OUTPUT_AMOUNT"
    /\ balances[1][P12] = pairs[P12].reserve0 + 100

\* the reserve of `token` in the pool registered for (tokenA, tokenB), read
\* from the pool's storage
ReserveOf(token, tokenA, tokenB) ==
    LET P == pairs[getPair[<<tokenA, tokenB>>]]
    IN  IF token = P.token0 THEN P.reserve0 ELSE P.reserve1

\* C12: getAmountsOut fails with INVALID_PATH on a path of fewer than 2 tokens;
\* when it returns, amounts[0] = amountIn and every amounts[i+1] is
\* getAmountOut(amounts[i], reserve of path[i], reserve of path[i+1]) in the
\* pool of the hop, whichever way the path crosses it; getAmountsIn mirrors it
\* with getAmountIn from the last hop backwards.  On the pools (1000, 1000),
\* (1000, 2000), (2000, 1000) getAmountsOut(100, [1, 2, 3, 4]) = [100, 90, 164, 75].
C12_AmountsChainHops ==
    LET path == lastCall.path
        amounts == lastCall.ret
        n == Len(path)
        Hop(i) == /\ getPair[<<path[i], path[i + 1]>>] # ZERO
                  /\ ReserveOf(path[i], path[i], path[i + 1]) > 0
                  /\ ReserveOf(path[i + 1], path[i], path[i + 1]) > 0
    IN  /\ lastCall.op \in {"getAmountsOut", "getAmountsIn"} =>
              /\ n < 2 => (~lastCall.ok /\ lastCall.err = "INVALID_PATH")
              /\ lastCall.ok => (n >= 2 /\ Len(amounts) = n /\ \A i \in 1..(n - 1) : Hop(i))
              /\ (n >= 2 /\ ~lastCall.ok) =>
                    lastCall.err \in {"INSUFFICIENT_INPUT_AMOUNT", "INSUFFICIENT_OUTPUT_AMOUNT",
                                      "INSUFFICIENT_LIQUIDITY", "IDENTICAL_ADDRESSES",
                                      "SafeMath: subtraction overflow",
                                      "Panic: division by zero"}
        /\ (lastCall.op = "getAmountsOut" /\ lastCall.ok) =>
              /\ amounts[1] = lastCall.args[1]
              /\ \A i \in 1..(n - 1) :
                    amounts[i + 1] =
                        getAmountOut(amounts[i], ReserveOf(path[i], path[i], path[i + 1]),
                                     ReserveOf(path[i + 1], path[i], path[i + 1])).val
        /\ (lastCall.op = "getAmountsIn" /\ lastCall.ok) =>
              /\ amounts[n] = lastCall.args[1]
              /\ \A i \in 1..(n - 1) :
                    amounts[i] =
                        getAmountIn(amounts[i + 1], ReserveOf(path[i], path[i], path[i + 1]),
                                    ReserveOf(path[i + 1], path[i], path[i + 1])).val
        /\ (/\ lastCall.op = "getAmountsOut" /\ lastCall.args = <<100>>
            /\ path = <<1, 2, 3, 4>>
            /\ pairs[PairAddress(1, 2)].reserve0 = 1000 /\ pairs[PairAddress(1, 2)].reserve1 = 1000
            /\ pairs[PairAddress(2, 3)].reserve0 = 1000 /\ pairs[PairAddress(2, 3)].reserve1 = 2000
            /\ pairs[PairAddress(3, 4)].reserve0 = 2000 /\ pairs[PairAddress(3, 4)].reserve1 = 1000)
              => (lastCall.ok /\ amounts = <<100, 90, 164, 75>>)

\* after Alice's swap of 100 along [1, 2] left the pool at (1100, 910),
\* getAmountsOut(75, [2, 1]) returned [75, 83]: 75 of token 2 against the
\* reserves (910, 1100) as the path crosses the pool
C12_Witness ==
    /\ lastCall.op = "getAmountsOut" /\ lastCall.ok
    /\ lastCall.path = <<2, 1>> /\ lastCall.args = <<75>>
    /\ pairs[P12].reserve0 = 1100 /\ pairs[P12].reserve1 = 910
    /\ lastCall.ret = <<75, getAmountOut(75, 910, 1100).val>>

\* the registry as it stands: lookups are symmetric, the pools listed are
\* distinct, and a pair of tokens has a pool exactly if the list holds the pool
\* initialized for it
RegistryConsistent ==
    /\ \A a \in TokenArgs, b \in TokenArgs : getPair[<<a, b>>] = getPair[<<b, a>>]
    /\ \A i \in 1..Len(allPairs), j \in 1..Len(allPairs) :
          allPairs[i] = allPairs[j] => i = j
    /\ \A i \in 1..Len(allPairs) :
          getPair[<<pairs[allPairs[i]].token0, pairs[allPairs[i]].token1>>] = allPairs[i]
    /\ \A a \in TokenArgs, b \in TokenArgs :
          getPair[<<a, b>>] # ZERO =>
              \E i \in 1..Len(allPairs) :
                  /\ allPairs[i] = getPair[<<a, b>>]
                  /\ {a, b} = {pairs[allPairs[i]].token0, pairs[allPairs[i]].token1}
    /\ allPairsLength(World) = Len(allPairs)

\* C13: in every state getPair(a, b) = getPair(b, a), a pair of tokens never
\* created maps to address(0), every pair of tokens has at most one pool and the
\* list holds each created pool once; a mapping once set never changes, the
\* list only grows, by one pool appended per successful createPair and by
\* nothing otherwise, so allPairsLength counts the successful createPair calls.
C13_RegistryOnlyGrows ==
    /\ []RegistryConsistent
    /\ [][/\ \A a \in TokenArgs, b \in TokenArgs :
                getPair[<<a, b>>] # ZERO => getPair'[<<a, b>>] = getPair[<<a, b>>]
          /\ IF lastCall'.op = "createPair" /\ lastCall'.ok
             THEN /\ allPairs' = Append(allPairs, lastCall'.ret[1])
                  /\ \A a \in TokenArgs, b \in TokenArgs :
                        (getPair[<<a, b>>] = ZERO /\ getPair'[<<a, b>>] # ZERO) =>
                            {a, b} = {lastCall'.args[1], lastCall'.args[2]}
             ELSE allPairs' = allPairs /\ getPair' = getPair]_vars

\* three pools created in the order (2,3), (1,2), (1,3); a further
\* createPair(3, 2) was refused
C13_Witness ==
    /\ allPairs = <<PairAddress(2, 3), PairAddress(1, 2), PairAddress(1, 3)>>
    /\ getPair[<<3, 2>>] = PairAddress(2, 3)
    /\ lastCall.op = "createPair" /\ lastCall.args = <<3, 2>> /\ ~lastCall.ok

\* C14: a call of initialize succeeds only if the caller is the account that
\* created the pair and the pair has not been initialized before, and once
\* token0 and token1 of a pair are set no step changes them.
C14_InitializeOnce ==
    [][/\ lastCall'.op = "initialize" /\ lastCall'.ok =>
             /\ lastCall'.sender = pairs[lastCall'.args[1]].factory
             /\ pairs[lastCall'.args[1]].token0 = ZERO
             /\ pairs[lastCall'.args[1]].token1 = ZERO
       /\ \A p \in PairAddrs :
             pairs[p].token0 # ZERO =>
                 /\ pairs'[p].token0 = pairs[p].token0
                 /\ pairs'[p].token1 = pairs[p].token1]_vars

\* a pair that has shares: address(0) holds at least MINIMUM_LIQUIDITY of them
\* and both reserves are positive
MinimumLocked(p) ==
    pairs[p].totalSupply > 0 =>
        /\ pairs[p].balanceOf[ZERO] >= MINIMUM_LIQUIDITY
        /\ pairs[p].totalSupply >= MINIMUM_LIQUIDITY
        /\ pairs[p].reserve0 > 0
        /\ pairs[p].reserve1 > 0

\* C15: once a pair's first mint has succeeded address(0) holds at least
\* MINIMUM_LIQUIDITY shares and no step of mint, burn, swap, skim, sync or a
\* share transfer lowers that holding, so totalSupply stays at or above
\* MINIMUM_LIQUIDITY, and both reserves stay strictly positive.
C15_MinimumLiquidityStaysLocked ==
    /\ [](\A p \in PairAddrs : MinimumLocked(p))
    /\ [][\A p \in PairAddrs :
             /\ pairs'[p].balanceOf[ZERO] >= pairs[p].balanceOf[ZERO]
             /\ (lastCall'.op = "mint" /\ lastCall'.ok /\ lastCall'.args[1] = p
                 /\ pairs[p].totalSupply = 0) =>
                    /\ pairs'[p].balanceOf[ZERO] = MINIMUM_LIQUIDITY
                    /\ pairs'[p].totalSupply = MINIMUM_LIQUIDITY + lastCall'.ret[1]]_vars

\* every share but the locked ones has been burned after a swap took token 2
\* out: the pair still has MINIMUM_LIQUIDITY shares and positive reserves
C15_Witness ==
    /\ lastCall.op = "burn" /\ lastCall.ok
    /\ pairs[P12].totalSupply = MINIMUM_LIQUIDITY
    /\ pairs[P12].balanceOf[ZERO] = MINIMUM_LIQUIDITY
    /\ pairs[P12].balanceOf[Alice] = 0
    /\ pairs[P12].reserve0 > 0
    /\ pairs[P12].reserve1 > 0
    /\ pairs[P12].reserve1 < pairs[P12].reserve0

\* totalSupply of pair p once the protocol-fee shares due have been minted
SharesAfterFee(p) ==
    _mintFee(World, p, pairs[p].reserve0, pairs[p].reserve1).w.pairs[p].totalSupply

\* the shares the claim gives a deposit into pair p that already has shares
ProportionalShares(p) ==
    LET amount0 == balances[pairs[p].token0][p] - pairs[p].reserve0
        amount1 == balances[pairs[p].token1][p] - pairs[p].reserve1
    IN  min((amount0 * SharesAfterFee(p)) \div pairs[p].reserve0,
            (amount1 * SharesAfterFee(p)) \div pairs[p].reserve1)

\* C16: mint on a pair with totalSupply > 0 credits `to` exactly
\* min(floor(amount0 * totalShares / reserve0), floor(amount1 * totalShares / reserve1))
\* with amountX = balanceX - reserveX and totalShares taken after the
\* protocol-fee shares, and fails with INSUFFICIENT_LIQUIDITY_MINTED, leaving
\* every balance and the pair unchanged, when that number is zero.
C16_MintCreditsProportionalShares ==
    [][\A p \in PairAddrs :
          (/\ lastCall'.op = "mint" /\ ~lastCall'.nested
           /\ lastCall'.args[1] = p /\ pairs[p].totalSupply > 0) =>
              IF ProportionalShares(p) > 0
              THEN /\ lastCall'.ok
                   /\ lastCall'.ret = <<ProportionalShares(p)>>
                   /\ pairs'[p].balanceOf[lastCall'.args[2]] =
                          pairs[p].balanceOf[lastCall'.args[2]] + ProportionalShares(p)
                   /\ pairs'[p].totalSupply = SharesAfterFee(p) + ProportionalShares(p)
                   /\ pairs'[p].balanceOf[ZERO] = pairs[p].balanceOf[ZERO]
              ELSE /\ ~lastCall'.ok
                   /\ lastCall'.err = "INSUFFICIENT_LIQUIDITY_MINTED"
                   /\ pairs' = pairs
                   /\ balances' = balances]_vars

\* fee on; 2000 of each token minted 1000 shares plus the 1000 locked; a
\* donation of 1000 of token 1 was synced; a deposit of 1000 of each token then
\* mints floor(2000 * 449 / (2449 * 5 + 2000)) = 63 fee shares first and credits
\* min(floor(1000 * 2063 / 3000), floor(1000 * 2063 / 2000)) = 687 shares
C16_Witness ==
    /\ lastCall.op = "mint" /\ lastCall.ok /\ lastCall.ret = <<687>>
    /\ pairs[P12].balanceOf[Collector] = 63
    /\ pairs[P12].balanceOf[Alice] = 1687
    /\ pairs[P12].totalSupply = 2750
    /\ pairs[P12].reserve0 = 4000 /\ pairs[P12].reserve1 = 3000

\* what the claim pays for the shares pair p holds of itself, of `token`
BurnPayout(p, token) ==
    (pairs[p].balanceOf[p] * balances[token][p]) \div SharesAfterFee(p)

\* C17: burn on a pair with shares pays `to`
\* floor(sharesBurned * currentBalanceX / totalShares) of each token, where
\* sharesBurned is the pair's own share balance and totalShares is taken after
\* the protocol-fee shares, destroys exactly sharesBurned and sets the reserves
\* to the balances that remain; if either payout is zero it fails with
\* INSUFFICIENT_LIQUIDITY_BURNED and changes nothing.
C17_BurnPaysProportionalAmounts ==
    [][\A p \in PairAddrs :
          (/\ lastCall'.op = "burn" /\ ~lastCall'.nested
           /\ lastCall'.args[1] = p /\ pairs[p].totalSupply > 0) =>
              LET token0 == pairs[p].token0
                  token1 == pairs[p].token1
                  to == lastCall'.args[2]
              IN  IF BurnPayout(p, token0) > 0 /\ BurnPayout(p, token1) > 0
                  THEN /\ lastCall'.ok
                       /\ lastCall'.ret = <<BurnPayout(p, token0), BurnPayout(p, token1)>>
                       /\ balances'[token0][to] = balances[token0][to] + BurnPayout(p, token0)
                       /\ balances'[token1][to] = balances[token1][to] + BurnPayout(p, token1)
                       /\ balances'[token0][p] = balances[token0][p] - BurnPayout(p, token0)
                       /\ balances'[token1][p] = balances[token1][p] - BurnPayout(p, token1)
                       /\ pairs'[p].balanceOf[p] = 0
                       /\ pairs'[p].totalSupply = SharesAfterFee(p) - pairs[p].balanceOf[p]
                       /\ pairs'[p].reserve0 = balances'[token0][p]
                       /\ pairs'[p].reserve1 = balances'[token1][p]
                  ELSE /\ ~lastCall'.ok
                       /\ lastCall'.err = "INSUFFICIENT_LIQUIDITY_BURNED"
                       /\ pairs' = pairs
                       /\ balances' = balances]_vars

\* fee on; after the first mint and a synced donation the reserves are
\* (3000, 2000); the pair holds 500 of its shares and 1000 more of token 1 than
\* its reserve: burn mints 63 fee shares, pays floor(500 * 4000 / 2063) = 969 and
\* floor(500 * 2000 / 2063) = 484 and leaves 1563 shares
C17_Witness ==
    /\ lastCall.op = "burn" /\ lastCall.ok /\ lastCall.ret = <<969, 484>>
    /\ balances[1][Borrower] = 969 /\ balances[2][Borrower] = 484
    /\ pairs[P12].balanceOf[Collector] = 63
    /\ pairs[P12].balanceOf[P12] = 0
    /\ pairs[P12].totalSupply = 1563
    /\ pairs[P12].reserve0 = 3031 /\ pairs[P12].reserve1 = 1516

\* C18: a swap that asks for an output fails with INSUFFICIENT_LIQUIDITY, with
\* no callback started and nothing changed, unless amount0Out < reserve0 and
\* amount1Out < reserve1; so asking for a whole reserve always fails, a swap
\* gets as far as its callback or succeeds only with both outputs strictly
\* below the reserves, and a successful swap leaves both reserves positive.
C18_OutputsBelowReserves ==
    [][LET p == lastCall'.args[1]
           amount0Out == lastCall'.args[2]
           amount1Out == lastCall'.args[3]
           below == amount0Out < pairs[p].reserve0 /\ amount1Out < pairs[p].reserve1
       IN  /\ (/\ lastCall'.op = "swap" /\ ~lastCall'.nested
               /\ (amount0Out > 0 \/ amount1Out > 0) /\ ~below) =>
                  /\ ~lastCall'.ok
                  /\ lastCall'.err = "INSUFFICIENT_LIQUIDITY"
                  /\ ~frame'.active
                  /\ balances' = balances
                  /\ pairs' = pairs
           /\ (lastCall'.op = "diamondCall" \/ (lastCall'.op = "swap" /\ lastCall'.ok)) =>
                  below
           /\ (lastCall'.op = "swap" /\ lastCall'.ok) =>
                  pairs'[p].reserve0 > 0 /\ pairs'[p].reserve1 > 0]_vars

\* the whole of reserve0 was asked for, and refused
C18_Witness ==
    /\ lastCall.op = "swap" /\ ~lastCall.ok /\ lastCall.err = "INSUFFICIENT_LIQUIDITY"
    /\ lastCall.args[1] = P12 /\ lastCall.args[3] = 0
    /\ lastCall.args[2] = pairs[P12].reserve0
    /\ balances[1][P12] > pairs[P12].reserve0

\* while diamondCall runs the pair's reserves and timestamp are those of the
\* state the swap was entered in
ReservesWaitForCallback ==
    frame.active =>
        /\ pairs[frame.pair].reserve0 = frame.entry.pairs[frame.pair].reserve0
        /\ pairs[frame.pair].reserve1 = frame.entry.pairs[frame.pair].reserve1
        /\ pairs[frame.pair].blockTimestampLast =
               frame.entry.pairs[frame.pair].blockTimestampLast

\* C19: within swap the outputs are transferred first; the callback runs next,
\* only for non-empty data, with the outputs delivered and the reserves not yet
\* updated; the balances are read after the callback and the reserves are set
\* to them last; a swap whose callback (or a later check) fails is undone as a
\* whole, the outputs back in the pair.
C19_SwapOrder ==
    /\ []ReservesWaitForCallback
    /\ [][LET p == lastCall'.args[1]
              amount0Out == lastCall'.args[2]
              amount1Out == lastCall'.args[3]
              to == lastCall'.args[4]
              token0 == pairs[p].token0
              token1 == pairs[p].token1
          IN  /\ lastCall'.op = "diamondCall" =>
                    /\ lastCall'.data /\ ~frame.active /\ frame'.active
                    /\ balances'[token0][to] = balances[token0][to] + amount0Out
                    /\ balances'[token1][to] = balances[token1][to] + amount1Out
                    /\ balances'[token0][p] = balances[token0][p] - amount0Out
                    /\ balances'[token1][p] = balances[token1][p] - amount1Out
                    /\ pairs'[p].reserve0 = pairs[p].reserve0
                    /\ pairs'[p].reserve1 = pairs[p].reserve1
              /\ (lastCall'.op = "swap" /\ ~lastCall'.nested /\ ~lastCall'.data) =>
                    /\ ~frame.active /\ ~frame'.active
                    /\ lastCall'.ok =>
                          /\ balances'[token0][to] = balances[token0][to] + amount0Out
                          /\ balances'[token1][to] = balances[token1][to] + amount1Out
                          /\ pairs'[p].reserve0 = balances[token0][p] - amount0Out
                          /\ pairs'[p].reserve1 = balances[token1][p] - amount1Out
              /\ (lastCall'.op = "swap" /\ ~lastCall'.nested /\ frame.active) =>
                    /\ lastCall'.data /\ ~frame'.active
                    /\ IF lastCall'.ok
                       THEN /\ balances' = balances
                            /\ pairs'[p].reserve0 = balances[token0][p]
                            /\ pairs'[p].reserve1 = balances[token1][p]
                       ELSE /\ balances' = frame.entry.balances
                            /\ pairs' = frame.entry.pairs]_vars

\* diamondCall is running: Borrower holds the 500 of token 1 the pair sent, the
\* pair's balance is down by 500 and its reserve0 still says 2000
C19_Witness ==
    /\ frame.active /\ lastCall.op = "diamondCall"
    /\ frame.amount0Out = 500
    /\ balances[1][Borrower] = 502
    /\ balances[1][P12] = 1500
    /\ pairs[P12].reserve0 = 2000

\* the amounts the claim chooses for addLiquidity(tokenA, tokenB, desiredA,
\* desiredB) on reserves (reserveA, reserveB) that are both positive
ChosenAmounts(desiredA, desiredB, reserveA, reserveB) ==
    LET quotedB == (desiredA * reserveB) \div reserveA
        quotedA == (desiredB * reserveA) \div reserveB
    IN  IF quotedB <= desiredB THEN <<desiredA, quotedB>> ELSE <<quotedA, desiredB>>

\* C20: addLiquidity uses (desiredA, desiredB) when the pool is missing (it is
\* then created) or has zero reserves; otherwise, with quotedB =
\* floor(desiredA * reserveB / reserveA), it uses (desiredA, quotedB) if
\* quotedB <= desiredB and fails unless quotedB >= minB, else it uses
\* (quotedA, desiredB) and fails unless quotedA >= minA.  The amounts never
\* exceed the desired ones, the assertion in the code never fails, and exactly
\* the chosen amounts go from the caller to the pool before mint is called.
C20_AddLiquidityAmounts ==
    [][lastCall'.op = "addLiquidity" =>
          LET tokenA == lastCall'.args[1]
              tokenB == lastCall'.args[2]
              desiredA == lastCall'.args[3]
              desiredB == lastCall'.args[4]
              minA == lastCall'.args[5]
              minB == lastCall'.args[6]
              to == lastCall'.args[7]
              sender == lastCall'.sender
              missing == getPair[<<tokenA, tokenB>>] = ZERO
              reserveA == IF missing THEN 0 ELSE ReserveOf(tokenA, tokenA, tokenB)
              reserveB == IF missing THEN 0 ELSE ReserveOf(tokenB, tokenA, tokenB)
              chosen == IF reserveA = 0 /\ reserveB = 0 THEN <<desiredA, desiredB>>
                        ELSE ChosenAmounts(desiredA, desiredB, reserveA, reserveB)
              pair == getPair'[<<tokenA, tokenB>>]
              before == [t \in {tokenA, tokenB} |-> balances[t][pair]]
          IN  /\ lastCall'.err # "Panic: assert"
              /\ lastCall'.ok =>
                    /\ reserveA = 0 <=> reserveB = 0
                    /\ <<lastCall'.ret[1], lastCall'.ret[2]>> = chosen
                    /\ chosen[1] <= desiredA /\ chosen[2] <= desiredB
                    /\ reserveA > 0 =>
                          IF (desiredA * reserveB) \div reserveA <= desiredB
                          THEN chosen[2] >= minB
                          ELSE chosen[1] >= minA
                    /\ pair # ZERO
                    /\ balances'[tokenA][sender] = balances[tokenA][sender] - chosen[1]
                    /\ balances'[tokenB][sender] = balances[tokenB][sender] - chosen[2]
                    /\ balances'[tokenA][pair] = before[tokenA] + chosen[1]
                    /\ balances'[tokenB][pair] = before[tokenB] + chosen[2]
                    /\ lastCall'.ret[3] > 0
                    /\ pairs'[pair].balanceOf[to] = pairs[pair].balanceOf[to] + lastCall'.ret[3]
                    /\ pairs'[pair].reserve0 = balances'[pairs'[pair].token0][pair]
                    /\ pairs'[pair].reserve1 = balances'[pairs'[pair].token1][pair]
              /\ (reserveA > 0 /\ reserveB > 0 /\ desiredA > 0 /\ desiredB > 0
                  /\ (desiredA * reserveB) \div reserveA <= desiredB
                  /\ chosen[2] < minB) =>
                    /\ ~lastCall'.ok /\ lastCall'.err = "INSUFFICIENT_B_AMOUNT"
                    /\ balances' = balances /\ pairs' = pairs
              /\ (reserveA > 0 /\ reserveB > 0 /\ desiredA > 0 /\ desiredB > 0
                  /\ (desiredA * reserveB) \div reserveA > desiredB
                  /\ chosen[1] < minA) =>
                    /\ ~lastCall'.ok /\ lastCall'.err = "INSUFFICIENT_A_AMOUNT"
                    /\ balances' = balances /\ pairs' = pairs
              /\ ~lastCall'.ok => balances' = balances /\ pairs' = pairs /\ getPair' = getPair]_vars

\* on reserves (3000, 2000) of tokens (1, 2), addLiquidity(2, 1, 2000, 1000)
\* quoted floor(2000 * 3000 / 2000) = 3000 > 1000 for token 1 and so used
\* floor(1000 * 2000 / 3000) = 666 of token 2 with the 1000 of token 1
C20_Witness ==
    /\ lastCall.op = "addLiquidity" /\ lastCall.ok
    /\ lastCall.args[1] = 2 /\ lastCall.args[2] = 1
    /\ lastCall.args[3] = 2000 /\ lastCall.args[4] = 1000
    /\ lastCall.ret[1] = 666 /\ lastCall.ret[2] = 1000
    /\ pairs[P12].reserve0 = 4000 /\ pairs[P12].reserve1 = 2666

\* the pool of hop k of `path` as the factory has it registered
HopPool(path, k) == getPair[<<path[k], path[k + 1]>>]

\* what a router swap along `path` with the amounts `amounts` moves: amounts[1]
\* from the caller into the first pool, amounts[k + 1] from pool k into pool
\* k + 1 or, from the last pool, to `to`; t and a range over tokens and holders
RoutedChange(path, amounts, sender, to, t, a) ==
    LET n == Len(path) - 1
        paid == IF t = path[1] /\ a = sender THEN amounts[1] ELSE 0
        received == IF t = path[n + 1] /\ a = to THEN amounts[n + 1] ELSE 0
        taken == IF \E k \in 1..n : a = HopPool(path, k) /\ t = path[k]
                 THEN amounts[CHOOSE k \in 1..n : a = HopPool(path, k) /\ t = path[k]]
                 ELSE 0
        given == IF \E k \in 1..n : a = HopPool(path, k) /\ t = path[k + 1]
                 THEN amounts[(CHOOSE k \in 1..n : a = HopPool(path, k) /\ t = path[k + 1]) + 1]
                 ELSE 0
    IN  received + taken - paid - given

\* C21: a successful router swap along a path of distinct tokens moves
\* amounts[0] from the caller straight into the pool of the first hop, the
\* output of every hop but the last straight into the pool of the next hop and
\* the output of the last hop to `to`; every pool on the path ends with reserves
\* equal to its balances, having been paid before it paid out; nobody else's
\* balance changes, the router's in particular; and a swap whose amounts,
\* minimum, funding and recipient are in order does succeed this way.
C21_HopsFeedTheNextPool ==
    [][lastCall'.op \in {"swapExactTokensForTokens", "swapTokensForExactTokens"} =>
          LET path == lastCall'.path
              n == Len(path) - 1
              amounts == lastCall'.ret
              sender == lastCall'.sender
              to == lastCall'.args[3]
              distinct == \A i \in 1..Len(path), j \in 1..Len(path) : path[i] = path[j] => i = j
              computed == getAmountsOut(World, lastCall'.args[1], path)
          IN  /\ \A t \in Tokens : balances'[t][Router] = balances[t][Router]
              /\ (lastCall'.ok /\ distinct) =>
                    /\ n >= 1 /\ Len(amounts) = n + 1
                    /\ \A t \in Tokens, a \in Addr :
                          balances'[t][a] =
                              balances[t][a] + RoutedChange(path, amounts, sender, to, t, a)
                    /\ \A k \in 1..n :
                          /\ HopPool(path, k) # ZERO
                          /\ pairs'[HopPool(path, k)].reserve0 =
                                 balances'[pairs[HopPool(path, k)].token0][HopPool(path, k)]
                          /\ pairs'[HopPool(path, k)].reserve1 =
                                 balances'[pairs[HopPool(path, k)].token1][HopPool(path, k)]
                          /\ pairs'[HopPool(path, k)].totalSupply =
                                 pairs[HopPool(path, k)].totalSupply
              /\ (/\ lastCall'.op = "swapExactTokensForTokens"
                  /\ distinct /\ computed.ok
                  /\ computed.val[Len(computed.val)] >= lastCall'.args[2]
                  /\ balances[path[1]][sender] >= lastCall'.args[1]
                  /\ to \notin {path[n], path[n + 1]}) => lastCall'.ok]_vars

\* 100 of token 1 went along [1, 2, 3, 4]: 90 of token 2 and 164 of token 3
\* passed from pool to pool and Alice received 75 of token 4
C21_Witness ==
    /\ lastCall.op = "swapExactTokensForTokens" /\ lastCall.ok
    /\ lastCall.path = <<1, 2, 3, 4>> /\ lastCall.ret = <<100, 90, 164, 75>>
    /\ balances[1][P12] = 1100 /\ balances[2][P12] = 910
    /\ balances[2][PairAddress(2, 3)] = 1090 /\ balances[3][PairAddress(2, 3)] = 1836
    /\ balances[3][PairAddress(3, 4)] = 2164 /\ balances[4][PairAddress(3, 4)] = 925
    /\ balances[4][Alice] = 75
    /\ \A t \in Tokens : balances[t][Router] = 0

\* C22: swapTokensForExactTokens fails with EXCESSIVE_INPUT_AMOUNT, moving
\* nothing, when the first amount of getAmountsIn exceeds amountInMax; when it
\* succeeds the caller has paid exactly amounts[0] <= amountInMax of path[0] and
\* `to` has received exactly amountOut of the last token of the path.
C22_ExactOutputWithinMaximum ==
    [][lastCall'.op = "swapTokensForExactTokens" =>
          LET path == lastCall'.path
              amountOut == lastCall'.args[1]
              amountInMax == lastCall'.args[2]
              to == lastCall'.args[3]
              sender == lastCall'.sender
              last == path[Len(path)]
              computed == getAmountsIn(World, amountOut, path)
          IN  /\ (computed.ok /\ computed.val[1] > amountInMax) =>
                    /\ ~lastCall'.ok
                    /\ lastCall'.err = "EXCESSIVE_INPUT_AMOUNT"
                    /\ balances' = balances
                    /\ pairs' = pairs
              /\ lastCall'.ok =>
                    /\ computed.ok /\ lastCall'.ret = computed.val
                    /\ lastCall'.ret[1] <= amountInMax
                    /\ lastCall'.ret[Len(path)] = amountOut
                    /\ path[1] # last
                    /\ balances'[path[1]][sender] = balances[path[1]][sender] - lastCall'.ret[1]
                    /\ balances'[last][to] = balances[last][to] + amountOut
                    /\ to # sender => balances'[last][sender] = balances[last][sender]]_vars

\* 75 of token 4 along [1, 2, 3, 4] cost 98 of token 1, the maximum allowed
C22_Witness ==
    /\ lastCall.op = "swapTokensForExactTokens" /\ lastCall.ok
    /\ lastCall.path = <<1, 2, 3, 4>>
    /\ lastCall.args = <<75, 98, Alice>>
    /\ lastCall.ret[1] = 98 /\ lastCall.ret[4] = 75
    /\ balances[1][Alice] = 2 /\ balances[4][Alice] = 75

\* q = floor(numerator / denominator), for numerator and denominator given as
\* digit sequences: q * denominator <= numerator < (q + 1) * denominator
IsFloorOf(q, numerator, denominator) ==
    /\ q >= 0
    /\ BigLeq(BigMul(BigOf(q), denominator), numerator)
    /\ ~BigLeq(BigMul(BigOf(q + 1), denominator), numerator)

\* C23: getAmountIn fails when amountOut = 0, when a reserve is 0 and when
\* amountOut >= reserveOut (amountOut = reserveOut included); otherwise it
\* returns floor(reserveIn * amountOut * 1000 / ((reserveOut - amountOut) * 997)) + 1.
C23_GetAmountInFormula ==
    lastCall.op = "getAmountIn" =>
        LET amountOut == lastCall.args[1]
            reserveIn == lastCall.args[2]
            reserveOut == lastCall.args[3]
        IN  IF amountOut = 0 \/ reserveIn = 0 \/ reserveOut = 0 \/ amountOut >= reserveOut
            THEN ~lastCall.ok
            ELSE /\ lastCall.ok
                 /\ IsFloorOf(lastCall.ret[1] - 1,
                              BigMul(BigMul(BigOf(reserveIn), BigOf(amountOut)), BigOf(1000)),
                              BigMul(BigOf(reserveOut - amountOut), BigOf(997)))

\* getAmountIn(10, 1000, 2000) = floor(10000000 / 1984030) + 1 = 6
C23_Witness ==
    /\ lastCall.op = "getAmountIn" /\ lastCall.ok
    /\ lastCall.args = <<10, 1000, 2000>>
    /\ lastCall.ret = <<6>>

\* C24: getAmountOut fails when amountIn = 0 or a reserve is 0; otherwise it
\* returns floor(amountIn * 997 * reserveOut / (reserveIn * 1000 + amountIn * 997)),
\* which is strictly less than reserveOut.
C24_GetAmountOutFormula ==
    lastCall.op = "getAmountOut" =>
        LET amountIn == lastCall.args[1]
            reserveIn == lastCall.args[2]
            reserveOut == lastCall.args[3]
        IN  IF amountIn = 0 \/ reserveIn = 0 \/ reserveOut = 0
            THEN ~lastCall.ok
            ELSE /\ lastCall.ok
                 /\ IsFloorOf(lastCall.ret[1],
                              BigMul(BigMul(BigOf(amountIn), BigOf(997)), BigOf(reserveOut)),
                              BigAdd(BigMul(BigOf(reserveIn), BigOf(1000)),
                                     BigMul(BigOf(amountIn), BigOf(997))))
                 /\ lastCall.ret[1] < reserveOut

\* getAmountOut(1000, 1000, 2000) = floor(1994000000 / 1997000) = 998
C24_Witness ==
    /\ lastCall.op = "getAmountOut" /\ lastCall.ok
    /\ lastCall.args = <<1000, 1000, 2000>>
    /\ lastCall.ret = <<998>>

\* what a skim step leaves alone: the pair's whole storage (reserves,
\* totalSupply, share balances, kLast, price accumulators, blockTimestampLast)
\* and every balance except the pair's and the recipient's in its two tokens
SkimFrame(p, to) ==
    /\ pairs' = pairs
    /\ \A t \in Tokens, a \in Addr :
          (t \notin {pairs[p].token0, pairs[p].token1} \/ a \notin {p, to}) =>
              balances'[t][a] = balances[t][a]

C26_SyncOnlySetsReserves ==
    [][(lastCall'.op = "sync" /\ ~lastCall'.nested) =>
          LET p == lastCall'.args[1]
          IN  /\ lastCall'.ok
              /\ pairs'[p].reserve0 = balances[pairs[p].token0][p]
              /\ pairs'[p].reserve1 = balances[pairs[p].token1][p]
              /\ balances' = balances
              /\ pairs'[p].totalSupply = pairs[p].totalSupply
              /\ pairs'[p].balanceOf = pairs[p].balanceOf
              /\ pairs'[p].kLast = pairs[p].kLast
              /\ pairs'[p].token0 = pairs[p].token0 /\ pairs'[p].token1 = pairs[p].token1
              /\ \A q \in PairAddrs \ {p} : pairs'[q] = pairs[q]
              /\ <<getPair, allPairs, feeTo, protocolFeeDenominator>>' =
                     <<getPair, allPairs, feeTo, protocolFeeDenominator>>]_vars

\* fee on, kLast = 2000 * 2000 from the first mint: a donation of 2000 of token
\* 1 was synced into reserve0 and no fee share was minted
C26_Witness ==
    /\ lastCall.op = "sync" /\ lastCall.ok
    /\ feeTo = Collector
    /\ pairs[P12].reserve0 = 4000 /\ pairs[P12].reserve1 = 2000
    /\ balances[1][P12] = 4000
    /\ pairs[P12].kLast = 4000000
    /\ pairs[P12].totalSupply = 2000
    /\ pairs[P12].balanceOf[Collector] = 0

\* r is the integer square root of x: the largest r with r * r <= x
IsRootOf(r, x) == r >= 0 /\ r * r <= x /\ x < (r + 1) * (r + 1)

\* the fee shares of the claim for pair p in the current state, with the two
\* roots as Math.sqrt returns them
FeeShares(p) ==
    LET P == pairs[p]
        rootK == sqrt(P.reserve0 * P.reserve1)
        rootKLast == sqrt(P.kLast)
    IN  IF feeTo # ZERO /\ P.kLast # 0 /\ rootK > rootKLast
        THEN (P.totalSupply * (rootK - rootKLast))
                 \div (rootK * protocolFeeDenominator + rootKLast)
        ELSE 0

IsBigFloorOf(q, numerator, denominator) ==
    /\ BigLeq(BigMul(q, denominator), numerator)
    /\ ~BigLeq(BigMul(BigAdd(q, <<1>>), denominator), numerator)

\* floor(reserveY * 1e18 / reserveX) * elapsed
PriceAdvance(reserveX, reserveY, elapsed) ==
    BigMul(BigDiv(BigMul(BigOf(reserveY), E18), BigOf(reserveX)), BigOf(elapsed))

DistinctPools(path) ==
    /\ \A k \in 1..(Len(path) - 1) :
          /\ HopPool(path, k) # ZERO
          /\ pairs[HopPool(path, k)].reserve0 > 0
          /\ pairs[HopPool(path, k)].reserve1 > 0
    /\ \A i \in 1..(Len(path) - 1), j \in 1..(Len(path) - 1) :
          HopPool(path, i) = HopPool(path, j) => i = j

\* C31: along a path of pairwise distinct funded pools for which getAmountsOut
\* yields positive amounts, swapExactTokensForTokens with amountOutMin at most
\* the final amount never fails a pool's INSUFFICIENT_LIQUIDITY,
\* INSUFFICIENT_INPUT_AMOUNT or K check, and, the caller holding amountIn, it
\* succeeds with the quoted amounts and `to` receives exactly the final one.
C31_QuoteSatisfiesPools ==
    [][lastCall'.op = "swapExactTokensForTokens" =>
          LET path == lastCall'.path
              n == Len(path) - 1
              amountIn == lastCall'.args[1]
              to == lastCall'.args[3]
              sender == lastCall'.sender
              computed == getAmountsOut(World, amountIn, path)
              last == computed.val[n + 1]
              quoted == /\ n >= 1 /\ DistinctPools(path) /\ computed.ok
                        /\ \A k \in 1..(n + 1) : computed.val[k] > 0
                        /\ lastCall'.args[2] <= last
          IN  quoted =>
                 /\ lastCall'.err \notin
                        {"INSUFFICIENT_LIQUIDITY", "INSUFFICIENT_INPUT_AMOUNT", "K"}
                 /\ (balances[path[1]][sender] >= amountIn /\ to \notin PairAddrs \cup Tokens) =>
                        /\ lastCall'.ok
                        /\ lastCall'.ret = computed.val
                        /\ balances'[path[n + 1]][to] =
                               balances[path[n + 1]][to] + last
                                   - (IF path[1] = path[n + 1] /\ to = sender
                                      THEN amountIn ELSE 0)]_vars

\* 1 of token 2 buys 1 of token 3 from the pool of 1000 and 2000: the smallest
\* positive quote passes the pool's K check
C31_Witness ==
    /\ lastCall.op = "swapExactTokensForTokens" /\ lastCall.ok
    /\ lastCall.path = <<2, 3>> /\ lastCall.ret = <<1, 1>>
    /\ pairs[PairAddress(2, 3)].reserve0 = 1001
    /\ pairs[PairAddress(2, 3)].reserve1 = 1999
    /\ balances[3][Borrower] = 1

\* the amounts of a swap along path when each hop is quoted against the
\* reserves its pool has in the world w the hops before it have left, and is
\* then executed for that amount
RECURSIVE AmountsAtExecution(_, _, _, _, _)
AmountsAtExecution(w, path, amounts, _to, i) ==
    IF i > Len(path) - 1 THEN Val(amounts)
    ELSE LET input == path[i]
             output == path[i + 1]
             reserves == getReserves(w, input, output)
             out == getAmountOut(amounts[i], reserves.val[1], reserves.val[2])
             sorted == sortTokens(input, output)
             amount0Out == IF input = sorted.val[1] THEN 0 ELSE out.val
             amount1Out == IF input = sorted.val[1] THEN out.val ELSE 0
             to == IF i < Len(path) - 1 THEN pairFor(w, output, path[i + 2]) ELSE _to
             swapped == swap(w, pairFor(w, input, output), Router, amount0Out, amount1Out, to)
         IN  IF ~reserves.ok THEN reserves
             ELSE IF ~out.ok THEN out
             ELSE IF ~swapped.ok THEN Err(swapped.err)
             ELSE AmountsAtExecution(swapped.w, path, Append(amounts, out.val), _to, i + 1)

\* a swapExactTokensForTokens step whose precomputed amounts are positive, whose
\* minimum they meet and whose input the caller holds: one that reaches the pools
ReachesPools ==
    LET path == lastCall'.path
        computed == getAmountsOut(World, lastCall'.args[1], path)
    IN  /\ lastCall'.op = "swapExactTokensForTokens"
        /\ Len(path) >= 2 /\ computed.ok
        /\ \A k \in 1..Len(path) : computed.val[k] > 0
        /\ computed.val[Len(path)] >= lastCall'.args[2]
        /\ balances[path[1]][lastCall'.sender] >= lastCall'.args[1]

\* the precomputed amounts are the amounts quoted hop by hop during execution,
\* and the swap executes with them
ExecutesAsQuoted ==
    LET path == lastCall'.path
        amountIn == lastCall'.args[1]
        computed == getAmountsOut(World, amountIn, path)
        paid == _safeTransferFrom(World, path[1], lastCall'.sender,
                                  pairFor(World, path[1], path[2]), amountIn)
        live == AmountsAtExecution(paid.w, path, <<amountIn>>, lastCall'.args[3], 1)
    IN  /\ live.ok /\ live.val = computed.val
        /\ lastCall'.ok /\ lastCall'.ret = computed.val

\* C32 as stated: for every path of at least 2 tokens, paths through the same
\* pool twice included, the amounts of getAmountsOut equal the amounts quoted
\* hop by hop against the reserves at the moment each hop executes, and the
\* swap executes with them.
C32_QuotesMatchExecution == [][ReachesPools => ExecutesAsQuoted]_vars

\* C32 amended: the same for paths whose hops use pairwise distinct pools.
C32_QuotesMatchExecutionOnDistinctPools ==
    [][(ReachesPools /\ DistinctPools(lastCall'.path)) => ExecutesAsQuoted]_vars

\* 100 of token 3 went along [3, 2, 1] after an earlier swap had moved the
\* reserves of the pool of tokens 1 and 2
C32_Witness ==
    /\ lastCall.op = "swapExactTokensForTokens" /\ lastCall.ok
    /\ lastCall.path = <<3, 2, 1>> /\ Len(lastCall.ret) = 3
    /\ pairs[P12].reserve0 + lastCall.ret[3] > 1000
    /\ pairs[PairAddress(2, 3)].reserve1 = 2100
    /\ balances[1][Borrower] >= lastCall.ret[3]

\* every deployed pair holds at least its reserve of each of its tokens
BalancesCoverReserves ==
    \A p \in PairAddrs :
        pairs[p].deployed =>
            /\ balances[pairs[p].token0][p] >= pairs[p].reserve0
            /\ balances[pairs[p].token1][p] >= pairs[p].reserve1

\* C33: between calls, under any interleaving of donations, mint, burn, swap,
\* skim and sync, a pool's balance of each of its tokens is at least its
\* reserve, so balance - reserve never underflows and skim always succeeds.
C33_BalancesCoverReserves ==
    /\ []BalancesCoverReserves
    /\ [][(lastCall'.op = "skim" /\ ~lastCall'.nested) => lastCall'.ok]_vars

\* after a mint, a swap that took 100 of token 2 out and a donation of 2000 of
\* token 2, skim returns the donation and the balances equal the reserves
C33_Witness ==
    /\ lastCall.op = "skim" /\ lastCall.ok /\ lastCall.ret = <<0, 2000>>
    /\ pairs[P12].reserve0 = 4000 /\ pairs[P12].reserve1 = 1900
    /\ balances[1][P12] = 4000 /\ balances[2][P12] = 1900

\* C34: with no fee collector configured, a successful mint or burn on a pool
\* that has shares never lowers the reserves per share: for each token,
\* reserve_after * totalSupply_before >= reserve_before * totalSupply_after;
\* a successful swap leaves totalSupply alone and never lowers
\* reserve0 * reserve1.
C34_SharesNeverLoseBacking ==
    [][(lastCall'.ok /\ ~lastCall'.nested /\ lastCall'.op \in {"mint", "burn", "swap"}) =>
          LET p == lastCall'.args[1]
              P == pairs[p]
              Q == pairs'[p]
          IN  /\ (lastCall'.op \in {"mint", "burn"} /\ feeTo = ZERO /\ P.totalSupply > 0) =>
                     /\ Q.reserve0 * P.totalSupply >= P.reserve0 * Q.totalSupply
                     /\ Q.reserve1 * P.totalSupply >= P.reserve1 * Q.totalSupply
              /\ lastCall'.op = "swap" =>
                     /\ Q.totalSupply = P.totalSupply
                     /\ Q.reserve0 * Q.reserve1 >= P.reserve0 * P.reserve1]_vars

\* 500 of 2121 shares burned against reserves of 3000 and 2000: the payout of
\* 707 and 471 is rounded down, and 2293 * 2121 >= 3000 * 1621
C34_Witness ==
    /\ lastCall.op = "burn" /\ lastCall.ok /\ lastCall.ret = <<707, 471>>
    /\ feeTo = ZERO
    /\ pairs[P12].reserve0 = 2293 /\ pairs[P12].reserve1 = 1529
    /\ pairs[P12].totalSupply = 1621

============================================================================
